---- MODULE Spec2Model ----
(***************************************************************************)
(* Verification model of kexuedns: the crit-bit tree (util/critbit), the   *)
(* DNS trie built on it (util/dnstrie), the resolver router (dns/router),  *)
(* the UDP resolver's in-flight sessions (dns/resolver) and the TTL cache  *)
(* (util/ttlcache).                                                        *)
(*                                                                         *)
(* Bytes are integers 0..255 and byte strings are sequences of bytes.      *)
(***************************************************************************)
EXTENDS Integers, Sequences, FiniteSets, TLC

(***************************************************************************)
(* Bounds of the model.                                                    *)
(***************************************************************************)
\* Largest number of keys held by the crit-bit tree.
MaxKeys == 3
\* Largest number of zones held by the DNS trie.
MaxZones == 3
\* Largest route index the router is given routes for.
MaxIndex == 2
\* Number of Query calls made on the UDP resolver.
MaxCalls == 2
\* Largest query ID (of the callers and drawn for the upstream).
MaxID == 1
\* Last instant of the clock, and the longest TTL given to the cache.
MaxTime == 4
MaxTTL == 1
\* Number of values stored in the cache by Set and Add.
MaxStores == 2
\* Cache.defaultTTL, the default TTL given to ttlcache.New.
defaultTTL == 2
\* Concurrent ResolverTCP.Query calls, connections ever dialed, and the
\* max_conns and idle_conns given to the connection pool.
MaxQueries == 2
MaxDials == 3
PoolMaxConns == 1
PoolIdleConns == 1
\* Longest query answered with the ServFail fallback.
MaxQueryLen == 14
\* Calls of SetEdnsSubnet on one query.
MaxSubnetCalls == 2
\* Calls of Forwarder.Start.
MaxStarts == 2
\* Calls on the crit-bit tree used as a map.
MaxMapCalls == 4

(***************************************************************************)
(* Byte arithmetic (Go's byte operators |, ^, &^, >>).                     *)
(***************************************************************************)
Bit(x, i) == (x \div (2 ^ i)) % 2

\* The byte whose bit i is op[bit i of a, bit i of b].
BitWise(a, b, op) ==
    op[Bit(a, 0), Bit(b, 0)] + 2 * op[Bit(a, 1), Bit(b, 1)]
        + 4 * op[Bit(a, 2), Bit(b, 2)] + 8 * op[Bit(a, 3), Bit(b, 3)]
        + 16 * op[Bit(a, 4), Bit(b, 4)] + 32 * op[Bit(a, 5), Bit(b, 5)]
        + 64 * op[Bit(a, 6), Bit(b, 6)] + 128 * op[Bit(a, 7), Bit(b, 7)]

\* a | b
BitOr(a, b) ==
    BitWise(a, b, [x \in 0..1, y \in 0..1 |-> IF x = 1 \/ y = 1 THEN 1 ELSE 0])

\* a ^ b
BitXor(a, b) ==
    BitWise(a, b, [x \in 0..1, y \in 0..1 |-> IF x # y THEN 1 ELSE 0])

\* a &^ b
BitAndNot(a, b) ==
    BitWise(a, b, [x \in 0..1, y \in 0..1 |-> IF x = 1 /\ y = 0 THEN 1 ELSE 0])

\* a >> n
Shr(a, n) == a \div (2 ^ n)

(***************************************************************************)
(* Byte strings.                                                           *)
(***************************************************************************)
\* bytes.HasPrefix(s, prefix)
HasPrefix(s, prefix) ==
    /\ Len(prefix) <= Len(s)
    /\ \A i \in 1..Len(prefix) : s[i] = prefix[i]

\* strings.HasSuffix(s, suffix)
HasSuffix(s, suffix) ==
    /\ Len(suffix) <= Len(s)
    /\ \A i \in 1..Len(suffix) : s[Len(s) - Len(suffix) + i] = suffix[i]

(***************************************************************************)
(* Crit-bit tree (critbit.Tree).                                           *)
(* A node is NilNode, an external node (key, value) or an internal node    *)
(* (index, otherBits, children); children[1] is the left child (direction  *)
(* 0), children[2] the right child (direction 1).                          *)
(***************************************************************************)
NilNode == [kind |-> "nil"]

nodeExternal(key, value) == [kind |-> "external", key |-> key, value |-> value]

nodeInternal(index, otherBits, left, right) ==
    [kind |-> "internal", index |-> index, otherBits |-> otherBits,
     children |-> <<left, right>>]

\* nodeInternal.direction: 1 when the critical bit of key is set.  The Go
\* index is 0-based.
direction(n, key) ==
    LET c == IF n.index < Len(key) THEN key[n.index + 1] ELSE 0
    IN  IF BitOr(n.otherBits, c) = 255 THEN 1 ELSE 0

\* The walk "for the best member" shared by Get, insert and Delete.
RECURSIVE BestMember(_, _)
BestMember(node, key) ==
    IF node.kind # "internal" THEN node
    ELSE BestMember(node.children[direction(node, key) + 1], key)

\* Tree.Get: <<value, ok>>
Get(root, key) ==
    IF root = NilNode THEN [value |-> "nil", ok |-> FALSE]
    ELSE LET nodeE == BestMember(root, key)
         IN  IF nodeE.key = key THEN [value |-> nodeE.value, ok |-> TRUE]
             ELSE [value |-> "nil", ok |-> FALSE]

\* The byte of key at the 0-based index, zero past the end.
ByteAt(key, index) == IF index < Len(key) THEN key[index + 1] ELSE 0

\* insert's search for the differing byte: the 0-based index of the first
\* differing byte and the XOR of the two bytes, found = FALSE when the loop
\* and the length test both fall through.
DifferingByte(nodeKey, key) ==
    LET diffs == {i \in 0..(Len(key) - 1) : ByteAt(nodeKey, i) # key[i + 1]}
    IN  IF diffs # {}
        THEN LET index == CHOOSE i \in diffs : \A j \in diffs : i <= j
             IN  [found |-> TRUE, index |-> index,
                  otherBits |-> BitXor(ByteAt(nodeKey, index), key[index + 1])]
        ELSE IF Len(key) < Len(nodeKey)
        THEN [found |-> TRUE, index |-> Len(key),
              otherBits |-> nodeKey[Len(key) + 1]]
        ELSE [found |-> FALSE, index |-> Len(key), otherBits |-> 0]

\* The SWAR step of insert: from the XOR of the differing bytes to the mask
\* with every bit set except the critical bit.
CritMask(x) ==
    LET a == BitOr(x, Shr(x, 1))
        b == BitOr(a, Shr(a, 2))
        c == BitOr(b, Shr(b, 4))
        d == BitAndNot(c, Shr(c, 1))
    IN  BitXor(d, 255)

\* insert's descent to the position of the new internal node and the
\* splice of the new node there.
RECURSIVE InsertAt(_, _, _, _, _, _)
InsertAt(node, key, value, index, otherBits, dir) ==
    IF \/ node.kind # "internal"
       \/ node.index > index
       \/ (node.index = index /\ node.otherBits > otherBits)
    THEN IF dir = 0
         THEN nodeInternal(index, otherBits, node, nodeExternal(key, value))
         ELSE nodeInternal(index, otherBits, nodeExternal(key, value), node)
    ELSE LET d == direction(node, key)
             sub == InsertAt(node.children[d + 1], key, value, index,
                             otherBits, dir)
         IN  IF d = 0
             THEN nodeInternal(node.index, node.otherBits, sub, node.children[2])
             ELSE nodeInternal(node.index, node.otherBits, node.children[1], sub)

\* Replace the value of the external node the walk for key ends at.
RECURSIVE ReplaceValue(_, _, _)
ReplaceValue(node, key, value) ==
    IF node.kind # "internal" THEN nodeExternal(node.key, value)
    ELSE LET d == direction(node, key)
             sub == ReplaceValue(node.children[d + 1], key, value)
         IN  IF d = 0
             THEN nodeInternal(node.index, node.otherBits, sub, node.children[2])
             ELSE nodeInternal(node.index, node.otherBits, node.children[1], sub)

\* Tree.insert: the new root, the old value, whether the key was inserted,
\* and whether the call panicked ("assertion failure").
insert(root, key, value, replace) ==
    IF root = NilNode
    THEN [root |-> nodeExternal(key, value), old |-> "nil", ok |-> TRUE,
          panic |-> FALSE]
    ELSE LET nodeE == BestMember(root, key)
             diff == DifferingByte(nodeE.key, key)
         IN  IF diff.found
             THEN LET otherBits == CritMask(diff.otherBits)
                      dir == direction([index |-> diff.index,
                                        otherBits |-> otherBits], nodeE.key)
                  IN  [root |-> InsertAt(root, key, value, diff.index,
                                         otherBits, dir),
                       old |-> "nil", ok |-> TRUE, panic |-> FALSE]
             ELSE IF nodeE.key # key
             THEN [root |-> root, old |-> "nil", ok |-> FALSE, panic |-> TRUE]
             ELSE IF replace
             THEN [root |-> ReplaceValue(root, key, value),
                   old |-> nodeE.value, ok |-> FALSE, panic |-> FALSE]
             ELSE [root |-> root, old |-> "nil", ok |-> FALSE, panic |-> FALSE]

\* Tree.Insert
Insert(root, key, value) == insert(root, key, value, FALSE)

\* Tree.Set
Set(root, key, value) == insert(root, key, value, TRUE)

\* Delete's removal of the leaf and of its parent below an internal node.
RECURSIVE DeleteAt(_, _)
DeleteAt(node, key) ==
    LET d == direction(node, key)
        child == node.children[d + 1]
    IN  IF child.kind # "internal"
        THEN IF child.key = key THEN node.children[2 - d] ELSE node
        ELSE LET sub == DeleteAt(child, key)
             IN  IF d = 0
                 THEN nodeInternal(node.index, node.otherBits, sub,
                                   node.children[2])
                 ELSE nodeInternal(node.index, node.otherBits,
                                   node.children[1], sub)

\* Tree.Delete: the new root, the deleted value and whether the key existed.
Delete(root, key) ==
    IF root = NilNode THEN [root |-> root, value |-> "nil", ok |-> FALSE]
    ELSE LET nodeE == BestMember(root, key)
         IN  IF nodeE.key # key
             THEN [root |-> root, value |-> "nil", ok |-> FALSE]
             ELSE IF root.kind # "internal"
             THEN [root |-> NilNode, value |-> nodeE.value, ok |-> TRUE]
             ELSE [root |-> DeleteAt(root, key), value |-> nodeE.value,
                   ok |-> TRUE]

\* The rightmost leaf of a subtree (the inner loop of LongestPrefix).
RECURSIVE Rightmost(_)
Rightmost(node) ==
    IF node.kind # "internal" THEN node ELSE Rightmost(node.children[2])

\* The outer loop of LongestPrefix: last is the most recent leaf found to be
\* a prefix of key (NilNode when none).
RECURSIVE LongestPrefixLoop(_, _, _)
LongestPrefixLoop(node, key, last) ==
    IF node.kind = "external"
    THEN IF HasPrefix(key, node.key) THEN node ELSE last
    ELSE LET dir == direction(node, key)
             nodeE == Rightmost(node.children[1])
             last2 == IF dir = 1 /\ HasPrefix(key, nodeE.key)
                      THEN nodeE ELSE last
         IN  LongestPrefixLoop(node.children[dir + 1], key, last2)

\* Tree.LongestPrefix: <<key, value, ok>>
NoMatch == [key |-> <<>>, value |-> "nil", ok |-> FALSE]

LongestPrefix(root, key) ==
    IF root = NilNode THEN NoMatch
    ELSE LET last == LongestPrefixLoop(root, key, NilNode)
         IN  IF last # NilNode
             THEN [key |-> last.key, value |-> last.value, ok |-> TRUE]
             ELSE NoMatch

\* Tree.longestPrefixR
RECURSIVE longestPrefixR(_, _)
longestPrefixR(node, key) ==
    IF node.kind = "external"
    THEN IF HasPrefix(key, node.key)
         THEN [key |-> node.key, value |-> node.value, ok |-> TRUE]
         ELSE NoMatch
    ELSE IF node.kind = "internal"
    THEN LET dir == direction(node, key)
             r == longestPrefixR(node.children[dir + 1], key)
         IN  IF r.ok THEN r
             ELSE IF dir = 1 THEN longestPrefixR(node.children[1], key)
             ELSE NoMatch
    ELSE NoMatch

\* Tree.LongestPrefixR
LongestPrefixR(root, key) == longestPrefixR(root, key)

\* Tree.Walk: the entries in walk order.
RECURSIVE Walk(_)
Walk(node) ==
    IF node.kind = "external" THEN <<[key |-> node.key, value |-> node.value]>>
    ELSE IF node.kind = "internal"
    THEN Walk(node.children[1]) \o Walk(node.children[2])
    ELSE <<>>

(***************************************************************************)
(* DNS trie (dnstrie.DNSTrie): a crit-bit tree keyed by the transformed    *)
(* zone names.                                                             *)
(***************************************************************************)
Dot == <<46>>

keyXTableKeepsCase(c) == c

\* keyXTable: 'A'..'Z' to lower case, every other byte unchanged.
keyXTable(c) == IF c >= 65 /\ c <= 90 THEN c - 65 + 97 ELSE c

\* strings.TrimSuffix(dname, ".")
TrimSuffixDot(dname) ==
    IF HasSuffix(dname, Dot) THEN SubSeq(dname, 1, Len(dname) - 1) ELSE dname

\* dnstrie.NewKey: trim the final dot, lower the case, reverse, append a dot.
NewKey(dname) ==
    LET d == TrimSuffixDot(dname)
        l == Len(d)
    IN  [i \in 1..(l + 1) |-> IF i = l + 1 THEN 46 ELSE keyXTable(d[l - i + 1])]

\* Key.String: reverse the key back and drop the appended dot.
KeyString(k) ==
    LET l == Len(k)
        name == [i \in 1..l |-> k[l - i + 1]]
    IN  SubSeq(name, 2, l)

\* DNSTrie.AddZone
AddZone(t, name) == Set(t, NewKey(name), name).root

\* DNSTrie.HasZone
HasZone(t, name) == Get(t, NewKey(name)).ok

\* DNSTrie.DeleteZone
DeleteZone(t, name) == Delete(t, NewKey(name)).root

\* DNSTrie.Match: the matched key and whether there is a match.
Match(t, name) ==
    LET r == LongestPrefix(t, NewKey(name))
    IN  [key |-> r.key, ok |-> r.ok]

\* DNSTrie.Export
Export(t) == [i \in 1..Len(Walk(t)) |-> Walk(t)[i].value]

(***************************************************************************)
(* Router (dns.Router): the default resolver and the array of routes.      *)
(* A resolver is named by the spec it was built from; "nil" is no          *)
(* resolver.  A route's trie is NilTrie (a nil *DNSTrie) or the root of    *)
(* its crit-bit tree.                                                      *)
(***************************************************************************)
MaxRoutes == 10

NilRoute == [kind |-> "nil"]

NilTrie == [kind |-> "niltrie"]

\* &Route{}
NewRoute == [kind |-> "route", name |-> "", resolver |-> "nil", trie |-> NilTrie]

\* NewResolverFromExport: the resolver built from the spec re, or an error
\* for a spec that does not validate.
NewResolverFromExport(re) ==
    IF re = "bad" THEN [res |-> "nil", err |-> TRUE]
    ELSE [res |-> re, err |-> FALSE]

\* The trie SetRoute builds from the zones of a RouteExport.
RECURSIVE TrieOf(_, _)
TrieOf(zones, n) ==
    IF n = 0 THEN NilNode ELSE AddZone(TrieOf(zones, n - 1), zones[n])

\* The trie of a route with the zones of a RouteExport added to it.
RECURSIVE AddZones(_, _, _)
AddZones(trie, zones, n) ==
    IF n = 0 THEN trie ELSE AddZone(AddZones(trie, zones, n - 1), zones[n])

\* A SetRoute that adds the given zones to the zones the route has.
SetRouteMergesZones(rts, index, re) ==
    IF index <= 0 \/ index >= MaxRoutes THEN [routes |-> rts, err |-> TRUE]
    ELSE LET route0 == IF rts[index] = NilRoute THEN NewRoute ELSE rts[index]
             route1 == IF re.name # "" THEN [route0 EXCEPT !.name = re.name]
                       ELSE route0
             built == NewResolverFromExport(re.resolver)
             route2 == IF re.resolver # "nil"
                       THEN [route1 EXCEPT !.resolver = built.res]
                       ELSE route1
             trie0 == IF route2.trie = NilTrie THEN NilNode ELSE route2.trie
             route3 == IF Len(re.zones) > 0
                       THEN [route2 EXCEPT !.trie = AddZones(trie0, re.zones, Len(re.zones))]
                       ELSE route2
         IN  IF re.resolver # "nil" /\ built.err
             THEN [routes |-> [rts EXCEPT ![index] = route1], err |-> TRUE]
             ELSE [routes |-> [rts EXCEPT ![index] = route3], err |-> FALSE]

\* Router.SetRoute: the routes after the call and whether it returned an
\* error.  re is a RouteExport [name, resolver, zones].
SetRoute(rts, index, re) ==
    IF index <= 0 \/ index >= MaxRoutes THEN [routes |-> rts, err |-> TRUE]
    ELSE LET route0 == IF rts[index] = NilRoute THEN NewRoute ELSE rts[index]
             route1 == IF re.name # "" THEN [route0 EXCEPT !.name = re.name]
                       ELSE route0
             built == NewResolverFromExport(re.resolver)
             route2 == IF re.resolver # "nil"
                       THEN [route1 EXCEPT !.resolver = built.res]
                       ELSE route1
             route3 == IF Len(re.zones) > 0
                       THEN [route2 EXCEPT !.trie = TrieOf(re.zones, Len(re.zones))]
                       ELSE route2
         IN  IF re.resolver # "nil" /\ built.err
             THEN [routes |-> [rts EXCEPT ![index] = route1], err |-> TRUE]
             ELSE [routes |-> [rts EXCEPT ![index] = route3], err |-> FALSE]

\* Router.SetResolver: the default resolver after the call and whether it
\* returned an error.
SetResolver(def, re) ==
    LET built == NewResolverFromExport(re)
    IN  IF built.err THEN [resolver |-> def, err |-> TRUE]
        ELSE [resolver |-> built.res, err |-> FALSE]

\* Router.Export: the loop goes over all MaxRoutes slots of the array and
\* reads the name of each; the read of a nil slot dereferences a nil
\* pointer and the call panics.  The route of slot i is listed with Index
\* i + 1.
RouterExport(rts, def) ==
    IF \E i \in 0..(MaxRoutes - 1) : rts[i] = NilRoute
    THEN [panic |-> TRUE, resolver |-> "nil", routes |-> <<>>]
    ELSE [panic |-> FALSE, resolver |-> def,
          routes |-> [k \in 1..MaxRoutes |->
                         [index |-> k, name |-> rts[k - 1].name,
                          resolver |-> rts[k - 1].resolver,
                          zones |-> IF rts[k - 1].trie = NilTrie THEN {}
                                    ELSE {Export(rts[k - 1].trie)[i] :
                                            i \in 1..Len(Export(rts[k - 1].trie))}]]]

\* The loop of Router.GetResolver from index i on.  Matching against the
\* nil trie of a route dereferences a nil pointer: the call panics.
RECURSIVE GetResolverFrom(_, _, _, _)
GetResolverFrom(rts, def, name, i) ==
    IF i >= MaxRoutes THEN [resolver |-> def, index |-> -1, panic |-> FALSE]
    ELSE IF rts[i] = NilRoute THEN GetResolverFrom(rts, def, name, i + 1)
    ELSE IF rts[i].trie = NilTrie
    THEN [resolver |-> "nil", index |-> i, panic |-> TRUE]
    ELSE IF Match(rts[i].trie, name).ok
    THEN [resolver |-> rts[i].resolver, index |-> i, panic |-> FALSE]
    ELSE GetResolverFrom(rts, def, name, i + 1)

\* GetResolver with the priorities reversed: the matching route of the
\* highest index wins.
GetResolverLastMatch(rts, def, name) ==
    LET matching == {i \in 0..(MaxRoutes - 1) :
                        /\ rts[i] # NilRoute
                        /\ rts[i].trie # NilTrie
                        /\ Match(rts[i].trie, name).ok}
    IN  IF matching = {}
        THEN [resolver |-> def, index |-> -1, panic |-> FALSE]
        ELSE LET i == CHOOSE x \in matching : \A y \in matching : y <= x
             IN  [resolver |-> rts[i].resolver, index |-> i, panic |-> FALSE]

\* Router.GetResolver
GetResolver(rts, def, name) == GetResolverFrom(rts, def, name, 0)

(***************************************************************************)
(* UDP resolver (dns.ResolverUDP).  A DNS message is [id, q]: its ID and   *)
(* the Query call whose question it carries (as a query) or answers (as a  *)
(* response).                                                              *)
(***************************************************************************)
udpChannelSize == 1024

\* RawMsg.SetID
SetID(msg, id) == [msg EXCEPT !.id = id]

\* RawMsg.GetID
GetID(msg) == msg.id

\* Query's recovery of the caller's ID on the response it returns.
RecoverIDKeepsUpstreamID(resp, oldQID) == resp

RecoverID(resp, oldQID) == SetID(resp, oldQID)

\* make(chan []byte, 1)
NewRespCh == [buf |-> <<>>, closed |-> FALSE]

(***************************************************************************)
(* TTL cache (ttlcache.Cache).  items maps every key to its cacheItem      *)
(* [value, expireAt] or to NoItem.  Each operation is given the time `now` *)
(* it reads from the clock and returns the items after the call, its       *)
(* results and the entries it invokes the eviction callback on.  The items *)
(* taken from and put back to itemPool have both fields overwritten before *)
(* they are used, so the pool is not part of the state of one cache.       *)
(***************************************************************************)
DefaultTTL == 0

NoTTL == -1

NoItem == [kind |-> "noitem"]

cacheItem(value, expireAt) ==
    [kind |-> "item", value |-> value, expireAt |-> expireAt]

\* cacheItem.isExpired with the comparison of the expiry time made strict
\* the other way: expired as soon as now reaches expireAt.
isExpiredAtExpiry(item, now) == item.expireAt > 0 /\ item.expireAt <= now

\* cacheItem.isExpired
isExpired(item, now) == item.expireAt > 0 /\ item.expireAt < now

\* Cache.getExpireAt
getExpireAt(ttl, now) ==
    IF ttl < 0 THEN NoTTL
    ELSE IF ttl = DefaultTTL THEN now + defaultTTL
    ELSE now + ttl

\* Cache.Add that refuses every existing key, expired or not.
CacheAddRefusesExpired(items, key, value, ttl, now) ==
    IF items[key] # NoItem THEN [items |-> items, err |-> TRUE]
    ELSE [items |-> [items EXCEPT ![key] =
                         cacheItem(value, getExpireAt(ttl, now))],
          err |-> FALSE]

\* Cache.Add
CacheAdd(items, key, value, ttl, now) ==
    IF items[key] # NoItem /\ ~isExpired(items[key], now)
    THEN [items |-> items, err |-> TRUE]
    ELSE [items |-> [items EXCEPT ![key] =
                         cacheItem(value, getExpireAt(ttl, now))],
          err |-> FALSE]

\* Cache.Set
CacheSet(items, key, value, ttl, now) ==
    [items EXCEPT ![key] = cacheItem(value, getExpireAt(ttl, now))]

\* Cache.Get: the value (0 for nil) and whether it exists.
CacheGet(items, key, now) ==
    IF items[key] = NoItem THEN [value |-> 0, exists |-> FALSE]
    ELSE IF isExpired(items[key], now) THEN [value |-> 0, exists |-> FALSE]
    ELSE [value |-> items[key].value, exists |-> TRUE]

\* Cache.Pop: the entry is removed, put back to itemPool and only then are
\* its expiry and value read; the eviction callback is skipped.  `read` is
\* what these reads find in the item: its own fields, or the fields written
\* by a Set or Add of another cache that took the item from the pool in
\* between.
CachePop(items, key, now, read) ==
    IF items[key] = NoItem
    THEN [items |-> items, value |-> 0, exists |-> FALSE, evicted |-> {}]
    ELSE LET removed == [items EXCEPT ![key] = NoItem]
         IN  IF isExpired(read, now)
             THEN [items |-> removed, value |-> 0, exists |-> FALSE,
                   evicted |-> {}]
             ELSE [items |-> removed, value |-> read.value,
                   exists |-> TRUE, evicted |-> {}]

\* Cache.Delete that skips the eviction callback, as Pop does.
CacheDeleteSkipsCallback(items, key) ==
    [items |-> [items EXCEPT ![key] = NoItem], evicted |-> {}]

\* Cache.Delete: the entry is removed and the eviction callback invoked.
CacheDelete(items, key) ==
    IF items[key] = NoItem THEN [items |-> items, evicted |-> {}]
    ELSE [items |-> [items EXCEPT ![key] = NoItem],
          evicted |-> {[key |-> key, value |-> items[key].value]}]

\* The locked part of one pass of Cache.clean: every expired entry is
\* removed, put back to itemPool and then its value is read and collected in
\* evictedItems.  `reused` are the keys whose item another cache took from
\* the pool and wrote before that read.
CacheClean(items, now, reused, other) ==
    LET expired == {k \in DOMAIN items :
                        items[k] # NoItem /\ isExpired(items[k], now)}
    IN  [items |-> [k \in DOMAIN items |->
                        IF k \in expired THEN NoItem ELSE items[k]],
         evictedItems |->
             {[key |-> k,
               value |-> IF k \in reused THEN other ELSE items[k].value] :
                 k \in expired}]

(***************************************************************************)
(* Connection pool (ConnPool).  The pool is the record of its counter of   *)
(* checked-out plus idle connections, its queue of idle connections and    *)
(* whether it was closed.  Every operation returns the pool after the call *)
(* and the connection it closed, if any (NoConn otherwise).                *)
(***************************************************************************)
NoConn == 0

NewConnPool ==
    [active |-> 0, idle |-> <<>>, closed |-> FALSE]

\* get() with an idle connection: it is taken and health-checked; a broken
\* one is closed and the counter decremented, and get() tries again.
PoolGetIdle(p, alive) ==
    LET c == Head(p.idle)
    IN  IF alive
        THEN [pool |-> [p EXCEPT !.idle = Tail(p.idle)], conn |-> c,
              closedConn |-> NoConn]
        ELSE [pool |-> [p EXCEPT !.idle = Tail(p.idle),
                                 !.active = p.active - 1],
              conn |-> NoConn, closedConn |-> c]

\* get() with no idle connection and active < max_conns: a connection is
\* dialed; the counter counts it only if the dial succeeded.
PoolGetDial(p, fresh, dialed) ==
    IF dialed
    THEN [pool |-> [p EXCEPT !.active = p.active + 1], conn |-> fresh,
          err |-> FALSE]
    ELSE [pool |-> p, conn |-> NoConn, err |-> TRUE]

\* get() dials only with no idle connection and active < max_conns;
\* otherwise it waits for an idle connection.
PoolCanDial(p) == Len(p.idle) = 0 /\ p.active < PoolMaxConns

\* get() waits for an idle connection: none is idle and the counter is at
\* max_conns.
PoolGetBlocks(p) == ~p.closed /\ Len(p.idle) = 0 /\ p.active >= PoolMaxConns

\* put(conn, discard)
PoolPut(p, c, discard) ==
    IF discard \/ p.closed \/ Len(p.idle) >= PoolIdleConns
    THEN [pool |-> [p EXCEPT !.active = p.active - 1], closedConn |-> c]
    ELSE [pool |-> [p EXCEPT !.idle = Append(p.idle, c)],
          closedConn |-> NoConn]

\* close(): the queue is closed and so is every idle connection.
PoolClose(p) ==
    [pool |-> [p EXCEPT !.idle = <<>>, !.closed = TRUE],
     closedConns |-> {p.idle[i] : i \in 1..Len(p.idle)}]

(***************************************************************************)
(* ResolverTCP.Query.                                                      *)
(***************************************************************************)
\* The attempts of the retry loop: `try < 2`.
QueryTries == 2

\* The head of the retry loop that discards the previous connection before
\* it looks at the context and keeps holding it.
RetryHeadDiscardsFirst(c, ctxErr) ==
    [return |-> ctxErr, put |-> c, conn |-> c]

\* The head of the retry loop: with the context done Query returns (and its
\* deferred function discards the connection); otherwise the connection of
\* the previous attempt is discarded and let go of.
RetryHead(c, ctxErr) ==
    IF ctxErr THEN [return |-> TRUE, put |-> NoConn, conn |-> c]
    ELSE [return |-> FALSE, put |-> c, conn |-> NoConn]

\* A deferred function that always gives the connection back for reuse.
DeferredDiscardNever(err) == FALSE

\* The discard flag of the deferred function: `r.connPool.Put(conn, err != nil)`.
DeferredDiscard(err) == err

\* A loop that also tries again after the response content failed.
RetriesAfterAnyFailure(stage) == stage \in {"write", "length", "content"}

\* Whether the loop tries again (`continue`) after a failure at the stage.
Retries(stage) == stage \in {"write", "length"}

(***************************************************************************)
(* The ServFail fallback of the forwarder.  A raw message is the sequence  *)
(* of its bytes: byte 2 of the wire format is m[3] and byte 3 is m[4].     *)
(***************************************************************************)
RCodeServerFailure == 2

\* The header length: handleQuery drops packets no longer than it.
minQuerySize == 12

\* RawMsg.SetRCode: the QR bit of byte 2 is set, the low nibble of byte 3
\* is cleared and rcode & 0x0F or-ed in.
SetRCode(m, rcode) ==
    [m EXCEPT ![3] = BitOr(@, 128),
              ![4] = BitOr(BitAndNot(@, 15), rcode % 16)]

\* The fallback that or-s the ServFail code into byte 3 without clearing
\* its low nibble first.
ReplyBytesOrsRCode(query, resp) ==
    IF Len(resp) = 0
    THEN [query EXCEPT ![3] = BitOr(@, 128), ![4] = BitOr(@, 2)]
    ELSE resp

\* Forwarder.reply: the bytes sent to the client, the response if there is
\* one and the query patched to ServFail otherwise.
ReplyBytes(query, resp) ==
    IF Len(resp) = 0 THEN SetRCode(query, RCodeServerFailure) ELSE resp

(***************************************************************************)
(* The forwarder: handleQuery, the query timeout timer, receive and reply. *)
(***************************************************************************)
maxQuerySize == 512

\* The length of the packet handed to handleQuery: serveUDP reads into a
\* buffer of maxQuerySize bytes, handleTCP and handleDoH read all of it.
ReadLen(proto, len) ==
    IF proto = "udp" /\ len > maxQuerySize THEN maxQuerySize ELSE len

\* The checks of handleQuery before the session is stored: the length and
\* NewQueryMsg.
HandleGate(n, parses) ==
    IF n <= minQuerySize THEN "drop"
    ELSE IF ~parses THEN "drop"
    ELSE "accept"

\* A session as handleQuery receives it.
NewSession(proto, len, parses, key) ==
    [pc |-> "new", proto |-> proto, len |-> len, parses |-> parses,
     key |-> key, timer |-> "nil", response |-> "open", replies |-> <<>>,
     sent |-> FALSE, responded |-> FALSE, fail |-> "none",
     replying |-> FALSE]

\* Forwarder.reply on a session with the response or, without one ("nil"),
\* the ServFail fallback: the timer is stopped if it is set and has not
\* fired, and the reply written to the client.  For DoH the reply goes to
\* the response channel, which is then closed; a second reply panics.
Reply(sess, resp) ==
    LET stopped == [sess EXCEPT !.timer =
                        IF @ = "armed" THEN "stopped" ELSE @]
        what == IF resp = "nil" THEN "servfail" ELSE "resp"
    IN  IF sess.proto = "doh"
        THEN IF sess.response = "closed"
             THEN [sess |-> stopped, panic |-> TRUE]
             ELSE [sess |-> [stopped EXCEPT !.replies = Append(@, what),
                                            !.response = "closed"],
                   panic |-> FALSE]
        ELSE [sess |-> [stopped EXCEPT !.replies = Append(@, what)],
              panic |-> FALSE]

(***************************************************************************)
(* DNS messages (dnsmsg).  A raw message is the record of what its bytes   *)
(* pack: the ID of the header, the questions and the additional records.   *)
(* A QueryMsg holds the header, the first question and the OPT pseudo      *)
(* resource (its header, nil when there is none, and its options).         *)
(***************************************************************************)
maxPayloadSize == 1232
optionCodeSubnet == 8
ipv4PrefixLength == 24
ipv6PrefixLength == 56

\* strings.ToLower, on the names of the model.
ToLower(name) ==
    IF name = "www.Example.COM." THEN "www.example.com." ELSE name

\* QuerySession.String: "%d:%s:%s" of the ID, the type and the name.
QuerySessionString(id, type, name) == <<id, ":", type, ":", name>>

\* RawMsg.SessionKey: the header and the first question are parsed.
RawMsgSessionKey(m) ==
    IF Len(m.questions) = 0
    THEN [err |-> TRUE, key |-> <<>>]
    ELSE [err |-> FALSE,
          key |-> QuerySessionString(m.id, m.questions[1].type,
                                     ToLower(m.questions[1].name))]

NilHeader == [kind |-> "nil"]

\* The loop of NewQueryMsg over the additional section.  The parser returns
\* the header of resource i until its body is parsed or skipped: after the
\* header of a resource that is not an OPT the loop continues without
\* either and never ends ("hang").  After an OPT its body is parsed, the
\* header and options are stored and the loop goes on.
RECURSIVE AdditionalLoop(_, _, _)
AdditionalLoop(adds, i, opt) ==
    IF i > Len(adds)
    THEN [ret |-> "ok", opt |-> opt]
    ELSE IF adds[i].type # "OPT"
         THEN [ret |-> "hang", opt |-> opt]
         ELSE AdditionalLoop(adds, i + 1,
                  [header |-> adds[i].header, options |-> adds[i].options])

\* NewQueryMsg: "error" when the message has no question, "hang" when the
\* call does not return.
NewQueryMsg(msg) ==
    LET none == [header |-> NilHeader, options |-> <<>>]
    IN  IF Len(msg.questions) = 0
        THEN [ret |-> "error"]
        ELSE LET r == AdditionalLoop(msg.additionals, 1, none)
             IN  [ret |-> r.ret, id |-> msg.id,
                  question |-> msg.questions[1], opt |-> r.opt]

\* QueryMsg.SessionKey
QueryMsgSessionKey(q) ==
    QuerySessionString(q.id, q.question.type, ToLower(q.question.name))

\* netip.Addr.IsValid and IsUnspecified: address a is [kind, bytes] with
\* kind "v4" (4 bytes), "v6" (16 bytes) or "invalid" (the zero Addr).
IsValid(a) == a.kind # "invalid"

IsUnspecified(a) == IsValid(a) /\ \A i \in 1..Len(a.bytes) : a.bytes[i] = 0

\* One byte of netip.Addr.Prefix: its high `keep' bits.
MaskByte(b, keep) ==
    IF keep >= 8 THEN b
    ELSE IF keep <= 0 THEN 0
    ELSE b - (b % (2 ^ (8 - keep)))

PrefixUnmasked(bytes, n) == bytes

\* netip.Addr.Prefix(n).Addr(): the bits after the first n are zero.
Prefix(bytes, n) ==
    [i \in 1..Len(bytes) |-> MaskByte(bytes[i], n - 8 * (i - 1))]

\* The prefix length used by SetEdnsSubnet.
PrefixLength(a, prefixLen) ==
    IF a.kind = "v4"
    THEN IF prefixLen <= 0 \/ prefixLen > 32
         THEN ipv4PrefixLength ELSE prefixLen
    ELSE IF prefixLen <= 0 \/ prefixLen > 128
         THEN ipv6PrefixLength ELSE prefixLen

\* The data of the client subnet option: family (2 bytes, big endian),
\* source prefix length, scope prefix length, address.
SubnetData(a, prefixLen) ==
    LET family == IF a.kind = "v4" THEN 1 ELSE 2
        pl == PrefixLength(a, prefixLen)
        address == SubSeq(Prefix(a.bytes, pl), 1, (pl + 7) \div 8)
    IN  <<family \div 256, family % 256, pl % 256, 0>> \o address

SetOptionAppends(options, option) == Append(options, option)

\* The end of SetEdnsSubnet: the data of the first option with the code of
\* the new one is overwritten; without one the option is appended.
SetOption(options, option) ==
    LET same == {i \in 1..Len(options) : options[i].code = option.code}
    IN  IF same = {}
        THEN Append(options, option)
        ELSE LET first == CHOOSE i \in same : \A j \in same : i <= j
             IN  [options EXCEPT ![first].data = option.data]

\* QueryMsg.SetEdnsSubnet
SetEdnsSubnet(q, a, prefixLen) ==
    IF ~IsValid(a) \/ IsUnspecified(a)
    THEN [err |-> TRUE, q |-> q]
    ELSE LET rh == [kind |-> "opt", payload |-> maxPayloadSize]
             option == [code |-> optionCodeSubnet,
                        data |-> SubnetData(a, prefixLen)]
         IN  [err |-> FALSE,
              q |-> [q EXCEPT !.opt = [header |-> rh,
                                      options |-> SetOption(@.options,
                                                            option)]]]

\* QueryMsg.Build: the header, the question and, with an OPT header, one
\* OPT resource are packed.
Build(q) ==
    [id |-> q.id,
     questions |-> <<q.question>>,
     additionals |-> IF q.opt.header # NilHeader
                     THEN <<[type |-> "OPT", header |-> q.opt.header,
                             options |-> q.opt.options]>>
                     ELSE <<>>]

(***************************************************************************)
(* The store of the public addresses (config.MyIP).                        *)
(***************************************************************************)
\* The zero netip.Addr.
ZeroAddr == [kind |-> "invalid", bytes |-> <<>>]

\* netip.ParseAddr, on the strings of the model.
ParseAddr(ip) ==
    LET v4(b) == [err |-> FALSE, addr |-> [kind |-> "v4", bytes |-> b]]
        v6(hi, lo) ==
            [err |-> FALSE,
             addr |-> [kind |-> "v6",
                       bytes |-> hi \o <<0, 0, 0, 0, 0, 0, 0, 0, 0, 0, 0, 0>>
                                    \o lo]]
    IN  CASE ip = "0.0.0.0" -> v4(<<0, 0, 0, 0>>)
          [] ip = "127.0.0.1" -> v4(<<127, 0, 0, 1>>)
          [] ip = "10.1.2.3" -> v4(<<10, 1, 2, 3>>)
          [] ip = "172.31.0.1" -> v4(<<172, 31, 0, 1>>)
          [] ip = "172.32.0.1" -> v4(<<172, 32, 0, 1>>)
          [] ip = "192.168.1.1" -> v4(<<192, 168, 1, 1>>)
          [] ip = "239.1.1.1" -> v4(<<239, 1, 1, 1>>)
          [] ip = "203.0.113.5" -> v4(<<203, 0, 113, 5>>)
          [] ip = "::" -> v6(<<0, 0>>, <<0, 0>>)
          [] ip = "::1" -> v6(<<0, 0>>, <<0, 1>>)
          [] ip = "fd00::1" -> v6(<<253, 0>>, <<0, 1>>)
          [] ip = "ff02::1" -> v6(<<255, 2>>, <<0, 1>>)
          [] ip = "fe00::1" -> v6(<<254, 0>>, <<0, 1>>)
          [] ip = "2001:db8::1" -> v6(<<32, 1>>, <<0, 1>>)
          [] OTHER -> [err |-> TRUE, addr |-> ZeroAddr]

\* netip.Addr.Is4, Is6, IsLoopback, IsPrivate and IsMulticast.
Is4(a) == a.kind = "v4"

Is6(a) == a.kind = "v6"

IsLoopback(a) ==
    \/ Is4(a) /\ a.bytes[1] = 127
    \/ Is6(a) /\ a.bytes[16] = 1 /\ \A i \in 1..15 : a.bytes[i] = 0

IsPrivate(a) ==
    \/ /\ Is4(a)
       /\ \/ a.bytes[1] = 10
          \/ a.bytes[1] = 172 /\ a.bytes[2] - (a.bytes[2] % 16) = 16
          \/ a.bytes[1] = 192 /\ a.bytes[2] = 168
    \/ Is6(a) /\ a.bytes[1] - (a.bytes[1] % 2) = 252

IsMulticast(a) ==
    \/ Is4(a) /\ a.bytes[1] - (a.bytes[1] % 16) = 224
    \/ Is6(a) /\ a.bytes[1] = 255

NotPublicButPrivate(a) ==
    IsUnspecified(a) \/ IsLoopback(a) \/ IsMulticast(a)

\* The check of SetV4 and SetV6 for an address that is not public.
NotPublic(a) ==
    IsUnspecified(a) \/ IsLoopback(a) \/ IsPrivate(a) \/ IsMulticast(a)

\* GetMyIP: no address is set.
NewMyIP == [ipv4 |-> ZeroAddr, ipv6 |-> ZeroAddr]

\* MyIP.GetV4 and GetV6
GetV4(x) == [addr |-> x.ipv4, valid |-> IsValid(x.ipv4)]

GetV6(x) == [addr |-> x.ipv6, valid |-> IsValid(x.ipv6)]

\* MyIP.SetV4 and SetV6
SetV4(x, ip) ==
    LET r == ParseAddr(ip)
    IN  IF r.err \/ ~Is4(r.addr) \/ NotPublic(r.addr)
        THEN [err |-> TRUE, x |-> x]
        ELSE [err |-> FALSE, x |-> [x EXCEPT !.ipv4 = r.addr]]

SetV6(x, ip) ==
    LET r == ParseAddr(ip)
    IN  IF r.err \/ ~Is6(r.addr) \/ NotPublic(r.addr)
        THEN [err |-> TRUE, x |-> x]
        ELSE [err |-> FALSE, x |-> [x EXCEPT !.ipv6 = r.addr]]

(***************************************************************************)
(* The life of the forwarder: Start and Stop.  A forwarder is the record   *)
(* of its listen configurations (ListenDoT and ListenDoH are "nil", or     *)
(* hold a certificate or none), its resolver ("nil", "open" or "closed"),  *)
(* its responses channel, its cancel function, and of what it has opened:  *)
(* the socket of each protocol, how often each was closed, and the         *)
(* goroutines counted by its wait group.                                   *)
(***************************************************************************)
NewForwarder ==
    [Listen |-> FALSE, ListenDoT |-> "nil", ListenDoH |-> "nil",
     resolver |-> "nil", responses |-> "nil", cancel |-> "nil",
     socks |-> [p \in {"udp", "tcp", "dot", "doh"} |-> "none"],
     closes |-> [p \in {"udp", "tcp", "dot", "doh"} |-> 0],
     tasks |-> {}]

\* listenConfigs of Start: the protocols with a listen configuration.
ListenConfigs(f) ==
    (IF f.Listen THEN {"udp", "tcp"} ELSE {})
        \cup (IF f.ListenDoT # "nil" THEN {"dot"} ELSE {})
        \cup (IF f.ListenDoH # "nil" THEN {"doh"} ELSE {})

\* ListenConfig.listen dereferences the certificate for DoT and DoH.
ListenPanics(f, proto) ==
    \/ proto = "dot" /\ f.ListenDoT = "nocert"
    \/ proto = "doh" /\ f.ListenDoH = "nocert"

\* The first loop of Start, over the map listenConfigs in the order the
\* iteration happens to take: the sockets are bound until one fails.
RECURSIVE BindAll(_, _, _, _, _)
BindAll(f, order, i, fails, closers) ==
    IF i > Len(order)
    THEN [ret |-> "ok", closers |-> closers]
    ELSE IF order[i] \notin ListenConfigs(f)
         THEN BindAll(f, order, i + 1, fails, closers)
         ELSE IF ListenPanics(f, order[i])
              THEN [ret |-> "panic", closers |-> closers]
              ELSE IF order[i] \in fails
                   THEN [ret |-> "error", closers |-> closers]
                   ELSE BindAll(f, order, i + 1, fails,
                                closers \cup {order[i]})

\* c.Close() for every socket of `ps'.
CloseSocks(f, ps) ==
    [f EXCEPT !.socks = [p \in DOMAIN @ |->
                            IF p \in ps THEN "closed" ELSE @[p]],
              !.closes = [p \in DOMAIN @ |->
                            IF p \in ps THEN @[p] + 1 ELSE @[p]]]

\* Forwarder.Start: ret is "nil", "error", or "panic".
Start(f, order, fails) ==
    LET r == BindAll(f, order, 1, fails, {})
        opened == [f EXCEPT !.socks = [p \in DOMAIN @ |->
                                IF p \in r.closers THEN "open" ELSE @[p]]]
    IN  CASE r.ret = "panic" -> [ret |-> "panic", f |-> opened]
          [] r.ret = "error" ->
                 [ret |-> "error", f |-> CloseSocks(opened, r.closers)]
          [] r.closers = {} -> [ret |-> "nil", f |-> opened]
          [] OTHER ->
                 [ret |-> "nil",
                  f |-> [opened EXCEPT !.cancel = "set",
                             !.tasks = r.closers \cup {"receive"}]]

\* Resolver.Close: disconnect, then close(r.responses), which panics on a
\* channel that is closed.
ResolverClose(resolver) ==
    IF resolver = "closed"
    THEN [panic |-> TRUE, resolver |-> resolver]
    ELSE [panic |-> FALSE, resolver |-> "closed"]

\* Forwarder.Stop: ret is "ok", "panic" (the resolver is closed a second
\* time), or "hang" (the receive goroutine has not made the responses
\* channel yet, so it is not closed and wg.Wait never returns).  The
\* goroutines that wait for the cancellation close the sockets of the
\* serve goroutines, which then end.
Stop(f) ==
    LET served == {p \in f.tasks : p # "receive" /\ f.socks[p] = "open"}
        f1 == IF f.cancel # "nil" THEN CloseSocks(f, served) ELSE f
        rc == ResolverClose(f1.resolver)
        f2 == IF f1.resolver # "nil"
              THEN [f1 EXCEPT !.resolver = rc.resolver] ELSE f1
        f3 == [f2 EXCEPT !.responses = "nil"]
    IN  IF f1.resolver # "nil" /\ rc.panic
        THEN [ret |-> "panic", f |-> f1]
        ELSE IF "receive" \in f.tasks /\ f.responses = "nil"
             THEN [ret |-> "hang", f |-> [f3 EXCEPT !.tasks = {"receive"}]]
             ELSE [ret |-> "ok", f |-> [f3 EXCEPT !.tasks = {}]]

(***************************************************************************)
(* Resolver Close and the wait groups.                                     *)
(***************************************************************************)

\* A Wait that returns whatever the counter is.
WgWaitReturnsAtOnce(wg) == TRUE

\* sync.WaitGroup.Wait as Close calls it: it returns when the counter is 0.
WgWait(wg) == wg = 0

\* The backend a Query call runs on: ResolverUT.Query sends a query that
\* came over UDP to its UDP resolver and any other to its TCP resolver;
\* ResolverDoT has the Query of the ResolverTCP it embeds.
QuerySide(variant, isUDP) ==
    CASE variant = "udp" -> "udp"
      [] variant = "default" -> IF isUDP THEN "udp" ELSE "tcp"
      [] OTHER -> "tcp"

(***************************************************************************)
(* Resolvers built from a ResolverExport.                                  *)
(***************************************************************************)

\* The defaults, in seconds where they are durations.
defaultTimeouts == [Read |-> 15, Write |-> 5, Dial |-> 5, Handshake |-> 5]

defaultPoolSize == [MaxConns |-> 20, IdleConns |-> 10]

defaultKeepAlive == [Enable |-> TRUE, Idle |-> 15, Interval |-> 15, Count |-> 3]

\* netip.ParseAddrPort on the addresses of the model: an IP address and a
\* port parse, an address without a port or with a host name does not.
ParseAddrPort(address) ==
    IF address \in {"1.1.1.1:53", "[2606:4700::1111]:853"}
    THEN [ok |-> TRUE, addrport |-> address]
    ELSE [ok |-> FALSE, addrport |-> ""]

\* ResolverExport.Validate: the error, and re as the call leaves it.  Each
\* field is tested and assigned once from top to bottom, but KeepaliveIdle:
\* the test of KeepaliveCount, which comes last, assigns to it too.
Validate(re) ==
    LET p == ParseAddrPort(re.Address)
    IN  IF ~p.ok THEN [err |-> TRUE, re |-> re]
        ELSE [err |-> FALSE,
              re |-> [re EXCEPT
                  !.Name = IF @ # "" THEN @
                           ELSE IF re.ServerName # "" THEN re.ServerName
                           ELSE p.addrport,
                  !.PoolMaxConns = IF @ = 0 THEN defaultPoolSize.MaxConns ELSE @,
                  !.PoolIdleConns = IF @ = 0 THEN defaultPoolSize.IdleConns ELSE @,
                  !.DialTimeout = IF @ = 0 THEN defaultTimeouts.Dial ELSE @,
                  !.HandshakeTimeout = IF @ = 0 THEN defaultTimeouts.Handshake ELSE @,
                  !.KeepaliveIdle =
                      IF re.KeepaliveEnable /\ re.KeepaliveCount = 0
                      THEN defaultKeepAlive.Count
                      ELSE IF re.KeepaliveEnable /\ @ = 0
                      THEN defaultKeepAlive.Idle
                      ELSE @,
                  !.KeepaliveInterval =
                      IF re.KeepaliveEnable /\ @ = 0
                      THEN defaultKeepAlive.Interval
                      ELSE @]]

\* NewResolverUDP.
NewResolverUDP(re) ==
    LET v == Validate(re)
    IN  IF v.err THEN [res |-> [kind |-> "nil"], err |-> TRUE, re |-> v.re]
        ELSE [res |-> [kind |-> "udp", name |-> v.re.Name,
                       address |-> ParseAddrPort(v.re.Address).addrport],
              err |-> FALSE, re |-> v.re]

\* NewResolverTCP; dialTimeout is the zero value the struct literal leaves.
NewResolverTCP(re) ==
    LET v == Validate(re)
    IN  IF v.err THEN [res |-> [kind |-> "nil"], err |-> TRUE, re |-> v.re]
        ELSE [res |-> [kind |-> "tcp", name |-> v.re.Name,
                       address |-> ParseAddrPort(v.re.Address).addrport,
                       keepAlive |-> [Enable |-> v.re.KeepaliveEnable,
                                      Idle |-> v.re.KeepaliveIdle,
                                      Interval |-> v.re.KeepaliveInterval,
                                      Count |-> v.re.KeepaliveCount],
                       dialTimeout |-> 0,
                       poolMaxConns |-> v.re.PoolMaxConns,
                       poolIdleConns |-> v.re.PoolIdleConns],
              err |-> FALSE, re |-> v.re]

\* NewResolverDoT.
NewResolverDoT(re) ==
    LET t == NewResolverTCP(re)
    IN  IF t.err THEN t
        ELSE [t EXCEPT !.res = [kind |-> "dot", tcp |-> t.res,
                                tlsConfig |-> [ServerName |-> t.re.ServerName],
                                handshakeTimeout |-> t.re.HandshakeTimeout]]

\* NewResolverUT.
NewResolverUT(re) ==
    LET t == NewResolverTCP(re)
        u == NewResolverUDP(t.re)
    IN  IF t.err THEN t
        ELSE IF u.err THEN u
        ELSE [res |-> [kind |-> "default", tcp |-> t.res, udp |-> u.res],
              err |-> FALSE, re |-> u.re]

\* NewResolverFromExport on a full ResolverExport.
NewResolverFrom(re) ==
    CASE re.Protocol \in {"default", ""} -> NewResolverUT(re)
      [] re.Protocol = "udp" -> NewResolverUDP(re)
      [] re.Protocol = "tcp" -> NewResolverTCP(re)
      [] re.Protocol = "dot" -> NewResolverDoT(re)
      [] OTHER -> [res |-> [kind |-> "nil"], err |-> TRUE, re |-> re]

\* A ResolverExport with the zero value in every field.
ZeroExport ==
    [Name |-> "", Protocol |-> "", Address |-> "", ServerName |-> "",
     PoolMaxConns |-> 0, PoolIdleConns |-> 0, DialTimeout |-> 0,
     HandshakeTimeout |-> 0, KeepaliveEnable |-> FALSE, KeepaliveIdle |-> 0,
     KeepaliveInterval |-> 0, KeepaliveCount |-> 0]

\* ResolverUDP.Export.
ResolverUDPExport(r) ==
    [ZeroExport EXCEPT !.Name = r.name, !.Protocol = "udp", !.Address = r.address]

\* ResolverTCP.Export.
ResolverTCPExport(r) ==
    [ZeroExport EXCEPT !.Name = r.name, !.Protocol = "tcp", !.Address = r.address,
                       !.PoolMaxConns = r.poolMaxConns,
                       !.PoolIdleConns = r.poolIdleConns,
                       !.DialTimeout = r.dialTimeout,
                       !.KeepaliveEnable = r.keepAlive.Enable,
                       !.KeepaliveIdle = r.keepAlive.Idle,
                       !.KeepaliveInterval = r.keepAlive.Interval,
                       !.KeepaliveCount = r.keepAlive.Count]

\* The Export of each resolver variant.
ResolverExportOf(r) ==
    CASE r.kind = "udp" -> ResolverUDPExport(r)
      [] r.kind = "tcp" -> ResolverTCPExport(r)
      [] r.kind = "default" -> [ResolverTCPExport(r.tcp) EXCEPT !.Protocol = "default"]
      [] r.kind = "dot" ->
            [ResolverTCPExport(r.tcp) EXCEPT !.Protocol = "dot",
                                            !.ServerName = r.tlsConfig.ServerName,
                                            !.HandshakeTimeout = r.handshakeTimeout]

(***************************************************************************)
(* State.                                                                  *)
(***************************************************************************)
VARIABLES
    tree,       \* critbit.Tree.root of the tree under test
    stored,     \* the entries put in the tree: a set of [key, value]
    lp,         \* the last LongestPrefix call: its key and what it returned
    zoneTrie,   \* DNSTrie.tree.root of the trie under test
    zoneNames,  \* the zone names added to the trie and not deleted
    zm,         \* the last Match call: its name and what it returned
    resolver,   \* Router.resolver: the default resolver
    routes,     \* Router.routes
    gr,         \* the last GetResolver call: its name and what it returned
    sr,         \* the last SetRoute call: its arguments, the route before it, its error
    ex,         \* the last Export call: the routes it read and what it returned
    uq,         \* the Query calls: position, oldQID, newQID and result
    sessions,   \* ResolverUDP.sessions: upstream ID -> the call's session
    respCh,     \* the response channel of each call's session
    queries,    \* ResolverUDP.queries: the channel to the worker
    conn,       \* the worker's connection: "nil" or "open"
    wire,       \* the queries the upstream has received and not answered
    inbox,      \* the responses sent by the upstream and not yet read
    recv,       \* the receive goroutine: position, response and session
    now,        \* the clock read by time.Now()
    items,      \* Cache.items
    cleaning,   \* evictedItems of the pass of Cache.clean in progress
    closed,     \* Cache.Close was called: the sweeper has stopped
    nextValue,  \* the next value to be stored: every stored value is new
    fate,       \* history: what became of the entry of each stored value
    fired,      \* history: eviction callbacks invoked on each stored value
    lastStore,  \* history: per key, the last store with no operation since
    popped,     \* history: per key, popped and not stored again since
    cop,        \* the last cache operation: arguments, time and results
    pool,       \* ResolverTCP.connPool
    conns,      \* every connection: "none", "out", "idle" or "closed"
    tq,         \* the ResolverTCP.Query calls: position and local variables
    fb,         \* the last Forwarder.reply: query, response and bytes sent
    fsess,      \* Forwarder.sessions: the items of the TTL cache
    fs,         \* the sessions: the packet, the goroutines on it, the replies
    fpanic,     \* a goroutine of the forwarder panicked: the process is dead
    dm,         \* dnsmsg: the query being parsed, changed and built
    myIP,       \* config.MyIP: the two stored addresses
    mop,        \* the last call on it and its result
    fl,         \* the forwarder's life: the forwarder, the last call and its result
    co,         \* crit-bit tree as a map: the last call and its result
    dr,         \* a resolver, its wait groups, its Close call and its queries
    rv,         \* the last resolver built from a ResolverExport, and its export
    dl          \* for each Query call on the pool, whether the deadline of its context has passed

cbVars == <<tree, stored, lp>>

trieVars == <<zoneTrie, zoneNames, zm>>

routerVars == <<resolver, routes, gr, sr, ex>>

udpVars == <<uq, sessions, respCh, queries, conn, wire, inbox, recv>>

cacheVars ==
    <<now, items, cleaning, closed, nextValue, fate, fired, lastStore,
      popped, cop>>

poolVars ==
    <<pool, conns, tq>>

fallbackVars ==
    <<fb>>

fwdVars ==
    <<fsess, fs, fpanic>>

dmVars ==
    <<dm>>

myipVars ==
    <<myIP, mop>>

lifeVars ==
    <<fl>>

cmVars ==
    <<co>>

drainVars ==
    <<dr>>

newVars ==
    <<rv>>

deadlineVars ==
    <<dl>>

vars ==
    <<tree, stored, lp, zoneTrie, zoneNames, zm, resolver, routes, gr, sr, ex,
      uq, sessions, respCh, queries, conn, wire, inbox, recv,
      now, items, cleaning, closed, nextValue, fate, fired, lastStore,
      popped, cop,
      pool, conns, tq,
      fb,
      fsess, fs, fpanic,
      dm,
      myIP, mop,
      fl,
      co,
      dr,
      rv,
      dl>>

None == [kind |-> "none"]

\* The keys given to the crit-bit tree:
\*   "", "1", "a", "b", "a1", "aa", "ab", "aa1", "aba", "abb"
Keys ==
    { <<>>, <<49>>, <<97>>, <<98>>, <<97, 49>>, <<97, 97>>, <<97, 98>>,
      <<97, 97, 49>>, <<97, 98, 97>>, <<97, 98, 98>> }

\* The values stored in the crit-bit tree.
Values == {1, 2}

\* The names given to the DNS trie, as zones and as names to match:
\*   "", ".", "com", "COM.", "net", "1.com", "a.com", "A.com", "b.com",
\*   "xcom", "w.a.com"
DNames ==
    { <<>>, <<46>>, <<99, 111, 109>>, <<67, 79, 77, 46>>, <<110, 101, 116>>,
      <<49, 46, 99, 111, 109>>, <<97, 46, 99, 111, 109>>,
      <<65, 46, 99, 111, 109>>, <<98, 46, 99, 111, 109>>,
      <<120, 99, 111, 109>>, <<119, 46, 97, 46, 99, 111, 109>> }

\* The Query calls made on the UDP resolver, and the query IDs.
Calls == 1..MaxCalls
QueryIDs == 0..MaxID

\* The keys, values and TTLs given to the TTL cache.
CacheKeys == {"k1", "k2"}
CacheValues == 1..MaxStores
TTLs == {NoTTL, DefaultTTL} \cup 1..MaxTTL
\* The value stored by another cache that shares itemPool, and the items it
\* writes at time t.
OtherValue == MaxStores + 1
OtherItems(t) == {cacheItem(OtherValue, getExpireAt(ttl, t)) : ttl \in TTLs}

\* The ResolverTCP.Query calls and the connections the pool dials.
Queries == 1..MaxQueries
ConnIds == 1..MaxDials
IdleQuery ==
    [pc |-> "idle", try |-> 0, conn |-> NoConn, err |-> FALSE,
     attempts |-> <<>>, puts |-> <<>>, result |-> "none"]

\* The queries answered by Forwarder.reply: every length above the header
\* length, with bytes 2 and 3 (flags and codes) taken from FlagBytes.
FlagBytes == {0, 1, 2, 5, 15, 128, 130, 133, 240, 255}
MkQuery(n, b2, b3) ==
    [i \in 1..n |->
        IF i = 3 THEN b2 ELSE IF i = 4 THEN b3 ELSE (37 * i) % 256]
FallbackQueries ==
    {MkQuery(n, b2, b3) :
        n \in (minQuerySize + 1)..MaxQueryLen, b2 \in FlagBytes,
        b3 \in FlagBytes}
UpstreamResponses == {<<>>, MkQuery(minQuerySize + 1, 129, 128)}

\* The two client queries the forwarder receives, and their packets:
\* transport, length, whether NewQueryMsg parses them, and session key.
SessionIds == {1, 2}
SessionKeys == {"1:A:a.com.", "2:A:b.com."}
Protos == {"udp", "tcp", "dot", "doh"}
PacketLens ==
    {minQuerySize, minQuerySize + 1, maxQuerySize, maxQuerySize + 1}

\* The messages given to NewQueryMsg: IDs, questions and additional
\* sections in the orders of TestQueryMsg3, and an OPT with two client
\* subnet options.
Question1 == [name |-> "www.Example.COM.", type |-> "TypeA"]
Question2 == [name |-> "b.com.", type |-> "TypeAAAA"]
OPT1 == [type |-> "OPT", header |-> [kind |-> "opt", payload |-> 4096],
         options |-> <<[code |-> 10, data |-> <<1, 2>>]>>]
OPT2 == [type |-> "OPT", header |-> [kind |-> "opt", payload |-> 512],
         options |-> <<[code |-> 8, data |-> <<0, 1, 8, 0, 9>>],
                       [code |-> 10, data |-> <<3>>]>>]
OPT3 == [type |-> "OPT", header |-> [kind |-> "opt", payload |-> 512],
         options |-> <<[code |-> 8, data |-> <<0, 1, 8, 0, 9>>],
                       [code |-> 8, data |-> <<0, 1, 8, 0, 7>>]>>]
A1 == [type |-> "A"]
TXT1 == [type |-> "TXT"]
RawMsgs ==
    [id : {1, 2},
     questions : {<<>>, <<Question1>>, <<Question1, Question2>>},
     additionals : {<<>>, <<OPT1>>, <<OPT1, OPT2>>, <<OPT2, OPT1>>, <<OPT3>>,
                    <<A1>>, <<OPT1, TXT1>>, <<A1, OPT2, TXT1>>}]

\* The addresses and prefix lengths given to SetEdnsSubnet.
Addrs ==
    {[kind |-> "invalid", bytes |-> <<>>],
     [kind |-> "v4", bytes |-> <<0, 0, 0, 0>>],
     [kind |-> "v4", bytes |-> <<1, 2, 3, 4>>],
     [kind |-> "v4", bytes |-> <<1, 2, 255, 129>>],
     [kind |-> "v6", bytes |-> <<0, 0, 0, 0, 0, 0, 0, 0,
                                 0, 0, 0, 0, 0, 0, 0, 0>>],
     [kind |-> "v6", bytes |-> <<32, 1, 13, 184, 255, 85, 170, 170,
                                 187, 187, 204, 204, 221, 221, 238, 255>>]}

PrefixLens == {-1, 0, 1, 16, 20, 24, 32, 33, 56, 63, 64, 128, 129}

\* The strings given to SetV4 and SetV6.
IPStrings ==
    {"", "example", "0.0.0.0", "127.0.0.1", "10.1.2.3", "172.31.0.1",
     "172.32.0.1", "192.168.1.1", "239.1.1.1", "203.0.113.5", "::", "::1",
     "fd00::1", "ff02::1", "fe00::1", "2001:db8::1"}

\* The orders in which Start can come to iterate over listenConfigs, and
\* the certificates of the DoT and DoH listen configurations.
ProtoOrders ==
    {o \in [1..4 -> Protos] : \A i, j \in 1..4 : i # j => o[i] # o[j]}

ListenCerts == {"nil", "cert", "nocert"}

\* The keys given to the crit-bit tree used as a map: the empty key, keys
\* with 0x00 bytes and keys that are prefixes of each other.
ByteKeys ==
    { <<>>, <<0>>, <<97>>, <<97, 0>>, <<98>> }

\* The Query calls made on the resolver whose Close is followed.
DrainQueries == {1, 2}

\* The protocols NewResolverFromExport builds a resolver for.
DrainVariants == {"default", "udp", "tcp", "dot"}

\* The specs resolvers are built from: every protocol name the code knows,
\* one it does not, addresses that parse and that do not, and every
\* numeric field zero or not.
ResolverExports ==
    [Name : {""},
     Protocol : {"default", "udp", "tcp", "dot", "doh"},
     Address : {"1.1.1.1:53", "dns.example:53"},
     ServerName : {"", "dns.example"},
     PoolMaxConns : {0, 4},
     PoolIdleConns : {0, 2},
     DialTimeout : {0, 7},
     HandshakeTimeout : {0, 9},
     KeepaliveEnable : BOOLEAN,
     KeepaliveIdle : {0, 30},
     KeepaliveInterval : {0, 25},
     KeepaliveCount : {0, 6}]

StoredKeys == {e.key : e \in stored}

Init ==
    /\ tree = NilNode
    /\ stored = {}
    /\ lp = None
    /\ zoneTrie = NilNode
    /\ zoneNames = {}
    /\ zm = None
    /\ resolver = "nil"
    /\ routes = [i \in 0..(MaxRoutes - 1) |-> NilRoute]
    /\ gr = None
    /\ sr = None
    /\ ex = None
    /\ uq = [q \in Calls |->
                [pc |-> "idle", oldQID |-> 0, newQID |-> 0, result |-> None]]
    /\ sessions = [id \in QueryIDs |-> 0]
    /\ respCh = [q \in Calls |-> NewRespCh]
    /\ queries = <<>>
    /\ conn = "nil"
    /\ wire = {}
    /\ inbox = {}
    /\ recv = [pc |-> "off"]
    /\ now = 1
    /\ items = [k \in CacheKeys |-> NoItem]
    /\ cleaning = {}
    /\ closed = FALSE
    /\ nextValue = 1
    /\ fate = [v \in CacheValues |-> "unused"]
    /\ fired = [v \in CacheValues |-> 0]
    /\ lastStore = [k \in CacheKeys |-> None]
    /\ popped = [k \in CacheKeys |-> FALSE]
    /\ cop = [op |-> "none"]
    /\ pool = NewConnPool
    /\ conns = [c \in ConnIds |-> "none"]
    /\ tq = [q \in Queries |-> IdleQuery]
    /\ fb = None
    /\ fsess = [k \in SessionKeys |-> NoItem]
    /\ fs = [i \in SessionIds |-> [pc |-> "idle"]]
    /\ fpanic = FALSE
    /\ dm = [pc |-> "none"]
    /\ myIP = NewMyIP
    /\ mop = [op |-> "none"]
    /\ fl = [f |-> NewForwarder, op |-> "none", ret |-> "none", starts |-> 0]
    /\ co = [op |-> "none", panic |-> FALSE, calls |-> 0]
    /\ dr = [variant |-> "none", wgTCP |-> 0, wgUDP |-> 0, cancelled |-> FALSE,
             worker |-> FALSE, receive |-> FALSE, poolClosed |-> FALSE,
             close |-> "none",
             qs |-> [q \in DrainQueries |->
                        [pc |-> "idle", side |-> "none", before |-> FALSE]]]
    /\ rv = [op |-> "none"]
    /\ dl = [q \in Queries |-> FALSE]

(***************************************************************************)
(* Operations on the crit-bit tree.                                        *)
(***************************************************************************)
CbInsert(key, value) ==
    /\ key \in StoredKeys \/ Cardinality(stored) < MaxKeys
    /\ LET r == Insert(tree, key, value)
       IN  /\ tree' = r.root
           /\ stored' = IF r.ok THEN stored \cup {[key |-> key, value |-> value]}
                        ELSE stored
    /\ lp' = None
    /\ UNCHANGED <<trieVars, routerVars, udpVars, cacheVars, poolVars, fallbackVars, fwdVars, dmVars, myipVars, lifeVars, cmVars, drainVars, newVars, deadlineVars>>

CbSet(key, value) ==
    /\ key \in StoredKeys \/ Cardinality(stored) < MaxKeys
    /\ LET r == Set(tree, key, value)
       IN  /\ tree' = r.root
           /\ stored' = {e \in stored : e.key # key}
                            \cup {[key |-> key, value |-> value]}
    /\ lp' = None
    /\ UNCHANGED <<trieVars, routerVars, udpVars, cacheVars, poolVars, fallbackVars, fwdVars, dmVars, myipVars, lifeVars, cmVars, drainVars, newVars, deadlineVars>>

CbDelete(key) ==
    /\ LET r == Delete(tree, key)
       IN  /\ tree' = r.root
           /\ stored' = {e \in stored : e.key # key}
    /\ lp' = None
    /\ UNCHANGED <<trieVars, routerVars, udpVars, cacheVars, poolVars, fallbackVars, fwdVars, dmVars, myipVars, lifeVars, cmVars, drainVars, newVars, deadlineVars>>

CbLongestPrefix(key) ==
    /\ lp' = [kind |-> "call", key |-> key, res |-> LongestPrefix(tree, key)]
    /\ UNCHANGED <<tree, stored>>
    /\ UNCHANGED <<trieVars, routerVars, udpVars, cacheVars, poolVars, fallbackVars, fwdVars, dmVars, myipVars, lifeVars, cmVars, drainVars, newVars, deadlineVars>>

NextCritbit ==
    \/ \E key \in Keys, value \in Values : CbInsert(key, value)
    \/ \E key \in Keys, value \in Values : CbSet(key, value)
    \/ \E key \in Keys : CbDelete(key)
    \/ \E key \in Keys : CbLongestPrefix(key)

SpecCritbit == Init /\ [][NextCritbit]_vars

(***************************************************************************)
(* Operations on the DNS trie.                                             *)
(***************************************************************************)
\* The zone names that name the same zone as name (the same trie key).
SameZone(name) == {z \in zoneNames : NewKey(z) = NewKey(name)}

TrieAddZone(name) ==
    /\ SameZone(name) # {} \/ Cardinality(zoneNames) < MaxZones
    /\ zoneTrie' = AddZone(zoneTrie, name)
    /\ zoneNames' = (zoneNames \ SameZone(name)) \cup {name}
    /\ zm' = None
    /\ UNCHANGED <<cbVars, routerVars, udpVars, cacheVars, poolVars, fallbackVars, fwdVars, dmVars, myipVars, lifeVars, cmVars, drainVars, newVars, deadlineVars>>

TrieDeleteZone(name) ==
    /\ zoneTrie' = DeleteZone(zoneTrie, name)
    /\ zoneNames' = zoneNames \ SameZone(name)
    /\ zm' = None
    /\ UNCHANGED <<cbVars, routerVars, udpVars, cacheVars, poolVars, fallbackVars, fwdVars, dmVars, myipVars, lifeVars, cmVars, drainVars, newVars, deadlineVars>>

TrieMatch(name) ==
    /\ zm' = [kind |-> "call", name |-> name, res |-> Match(zoneTrie, name)]
    /\ UNCHANGED <<zoneTrie, zoneNames>>
    /\ UNCHANGED <<cbVars, routerVars, udpVars, cacheVars, poolVars, fallbackVars, fwdVars, dmVars, myipVars, lifeVars, cmVars, drainVars, newVars, deadlineVars>>

NextTrie ==
    \/ \E name \in DNames : TrieAddZone(name)
    \/ \E name \in DNames : TrieDeleteZone(name)
    \/ \E name \in DNames : TrieMatch(name)

SpecTrie == Init /\ [][NextTrie]_vars

(***************************************************************************)
(* Operations on the router.                                               *)
(***************************************************************************)
\* "com", "example.com", "net", "1.com", "a.com"
Com == <<99, 111, 109>>
ExampleCom == <<101, 120, 97, 109, 112, 108, 101, 46, 99, 111, 109>>
Net == <<110, 101, 116>>
OneCom == <<49, 46, 99, 111, 109>>
ACom == <<97, 46, 99, 111, 109>>
\* "foo.example.com", "foo.bar.com", "anything.net", "anything.org", "b.com"
FooExampleCom ==
    <<102, 111, 111, 46, 101, 120, 97, 109, 112, 108, 101, 46, 99, 111, 109>>
FooBarCom == <<102, 111, 111, 46, 98, 97, 114, 46, 99, 111, 109>>
AnythingNet == <<97, 110, 121, 116, 104, 105, 110, 103, 46, 110, 101, 116>>
AnythingOrg == <<97, 110, 121, 116, 104, 105, 110, 103, 46, 111, 114, 103>>
BCom == <<98, 46, 99, 111, 109>>

\* The RouteExports given to SetRoute: every field may be left empty.
RouteExports ==
    [name : {"", "r"},
     resolver : {"nil", "R1", "R2", "bad"},
     zones : {<<>>, <<Com>>, <<Com, OneCom, ACom>>}]

\* The indexes given to SetRoute: the valid ones and the two nearest
\* invalid ones.
RouteIndexes == 0..MaxIndex \cup {MaxRoutes}

\* The names asked of GetResolver.
QNames == {FooBarCom, BCom, AnythingOrg}

RouterSetResolver(re) ==
    /\ resolver' = SetResolver(resolver, re).resolver
    /\ gr' = None
    /\ sr' = None
    /\ ex' = None
    /\ UNCHANGED routes
    /\ UNCHANGED <<cbVars, trieVars, udpVars, cacheVars, poolVars, fallbackVars, fwdVars, dmVars, myipVars, lifeVars, cmVars, drainVars, newVars, deadlineVars>>

RouterSetRoute(index, re) ==
    /\ routes' = SetRoute(routes, index, re).routes
    /\ gr' = None
    /\ sr' = None
    /\ ex' = None
    /\ UNCHANGED resolver
    /\ UNCHANGED <<cbVars, trieVars, udpVars, cacheVars, poolVars, fallbackVars, fwdVars, dmVars, myipVars, lifeVars, cmVars, drainVars, newVars, deadlineVars>>

RouterGetResolver(name) ==
    /\ gr' = [kind |-> "call", name |-> name,
              res |-> GetResolver(routes, resolver, name)]
    /\ sr' = None
    /\ ex' = None
    /\ UNCHANGED <<resolver, routes>>
    /\ UNCHANGED <<cbVars, trieVars, udpVars, cacheVars, poolVars, fallbackVars, fwdVars, dmVars, myipVars, lifeVars, cmVars, drainVars, newVars, deadlineVars>>

\* Export(), with the routes it read and what it returned kept for the
\* next state.
RouterExportCall ==
    /\ ex' = [kind |-> "call", routes |-> routes, def |-> resolver,
              res |-> RouterExport(routes, resolver)]
    /\ gr' = None
    /\ sr' = None
    /\ UNCHANGED <<resolver, routes>>
    /\ UNCHANGED <<cbVars, trieVars, udpVars, cacheVars, poolVars, fallbackVars, fwdVars, dmVars, myipVars, lifeVars, cmVars, drainVars, newVars, deadlineVars>>

NextRouter ==
    \/ RouterExportCall
    \/ \E re \in {"D", "bad"} : RouterSetResolver(re)
    \/ \E index \in RouteIndexes, re \in RouteExports : RouterSetRoute(index, re)
    \/ \E name \in QNames : RouterGetResolver(name)

SpecRouter == Init /\ [][NextRouter]_vars

\* The RouteExports of the calls of SetRoute that are followed one by one:
\* each field given or left empty, and a resolver spec that does not
\* validate.
PartialExports ==
    [name : {"", "r"},
     resolver : {"nil", "R1", "bad"},
     zones : {<<>>, <<Com>>, <<Net>>}]

\* Their indexes: the two first valid ones and the invalid ones next to the
\* valid range.
PartialIndexes == {0, 1, 2, MaxRoutes}

\* SetRoute(index, re), with the call, the route it found and what it
\* returned kept for the next state.
RouterSetRouteCall(index, re) ==
    /\ routes' = SetRoute(routes, index, re).routes
    /\ gr' = None
    /\ ex' = None
    /\ sr' = [kind |-> "call", index |-> index, re |-> re,
              err |-> SetRoute(routes, index, re).err,
              old |-> IF index \in DOMAIN routes THEN routes[index] ELSE NilRoute,
              others |-> \A i \in DOMAIN routes \ {index} :
                            SetRoute(routes, index, re).routes[i] = routes[i],
              def |-> resolver]
    /\ UNCHANGED resolver
    /\ UNCHANGED <<cbVars, trieVars, udpVars, cacheVars, poolVars, fallbackVars, fwdVars, dmVars, myipVars, lifeVars, cmVars, drainVars, newVars, deadlineVars>>

NextSetRoute ==
    \/ RouterSetResolver("D")
    \/ \E index \in PartialIndexes, re \in PartialExports :
           RouterSetRouteCall(index, re)
    \/ \E name \in QNames : RouterGetResolver(name)

SpecSetRoute == Init /\ [][NextSetRoute]_vars

\* The scenario of three routes: {com} to R1, {example.com} to R2 and
\* {net} to R3, set at any indexes.
ScenarioRoutes ==
    { [name |-> "r1", resolver |-> "R1", zones |-> <<Com>>],
      [name |-> "r2", resolver |-> "R2", zones |-> <<ExampleCom>>],
      [name |-> "r3", resolver |-> "R3", zones |-> <<Net>>] }

ScenarioIndexes == 1..(MaxIndex + 1)

ScenarioNames == {FooExampleCom, FooBarCom, AnythingNet, AnythingOrg}

NextScenario ==
    \/ RouterSetResolver("D")
    \/ \E index \in ScenarioIndexes, re \in ScenarioRoutes :
           RouterSetRoute(index, re)
    \/ \E name \in ScenarioNames : RouterGetResolver(name)

SpecScenario == Init /\ [][NextScenario]_vars

(***************************************************************************)
(* The UDP resolver: Query calls, the worker, the upstream and the receive *)
(* goroutine.  In sessions, 0 is no entry and q the session of call q.     *)
(***************************************************************************)
\* A panic ends the process.
UdpRunning == recv.pc # "panic"

\* Query up to sessions.Store: save the caller's ID, draw the upstream ID
\* and store the session under it.
UdpQueryStore(q, oldQID, newQID) ==
    /\ UdpRunning
    /\ uq[q].pc = "idle"
    /\ uq' = [uq EXCEPT ![q] = [pc |-> "stored", oldQID |-> oldQID,
                                newQID |-> newQID, result |-> None]]
    /\ sessions' = [sessions EXCEPT ![newQID] = q]
    /\ respCh' = [respCh EXCEPT ![q] = NewRespCh]
    /\ UNCHANGED <<queries, conn, wire, inbox, recv>>
    /\ UNCHANGED <<cbVars, trieVars, routerVars, cacheVars, poolVars, fallbackVars, fwdVars, dmVars, myipVars, lifeVars, cmVars, drainVars, newVars, deadlineVars>>

\* The deferred function of Query: delete the session stored under the
\* call's upstream ID and close the call's channel.
UdpQueryReturn(q, result) ==
    /\ uq' = [uq EXCEPT ![q].pc = "done", ![q].result = result]
    /\ sessions' = [sessions EXCEPT ![uq[q].newQID] = 0]
    /\ respCh' = [respCh EXCEPT ![q].closed = TRUE]

\* The first select of Query: the query goes to the worker.
UdpQuerySend(q) ==
    /\ UdpRunning
    /\ uq[q].pc = "stored"
    /\ Len(queries) < udpChannelSize
    /\ queries' = Append(queries, [id |-> uq[q].newQID, q |-> q])
    /\ uq' = [uq EXCEPT ![q].pc = "waiting"]
    /\ UNCHANGED <<sessions, respCh, conn, wire, inbox, recv>>
    /\ UNCHANGED <<cbVars, trieVars, routerVars, cacheVars, poolVars, fallbackVars, fwdVars, dmVars, myipVars, lifeVars, cmVars, drainVars, newVars, deadlineVars>>

\* Either select of Query: the context is done.
UdpQueryCtxDone(q) ==
    /\ UdpRunning
    /\ uq[q].pc \in {"stored", "waiting"}
    /\ UdpQueryReturn(q, [kind |-> "err"])
    /\ UNCHANGED <<queries, conn, wire, inbox, recv>>
    /\ UNCHANGED <<cbVars, trieVars, routerVars, cacheVars, poolVars, fallbackVars, fwdVars, dmVars, myipVars, lifeVars, cmVars, drainVars, newVars, deadlineVars>>

\* The second select of Query: a response is on the channel.
UdpQueryResponse(q) ==
    /\ UdpRunning
    /\ uq[q].pc = "waiting"
    /\ respCh[q].buf # <<>>
    /\ LET resp == RecoverID(Head(respCh[q].buf), uq[q].oldQID)
       IN  /\ uq' = [uq EXCEPT ![q].pc = "done",
                               ![q].result = [kind |-> "resp", msg |-> resp]]
           /\ sessions' = [sessions EXCEPT ![uq[q].newQID] = 0]
           /\ respCh' = [respCh EXCEPT ![q] = [buf |-> <<>>, closed |-> TRUE]]
    /\ UNCHANGED <<queries, conn, wire, inbox, recv>>
    /\ UNCHANGED <<cbVars, trieVars, routerVars, cacheVars, poolVars, fallbackVars, fwdVars, dmVars, myipVars, lifeVars, cmVars, drainVars, newVars, deadlineVars>>

\* One iteration of the worker on a query: dial when there is no
\* connection (starting the receive goroutine), write the query, and on a
\* dial or write failure requeue it.
UdpWorker(outcome) ==
    /\ UdpRunning
    /\ queries # <<>>
    /\ \/ /\ outcome = "dialfail"
          /\ conn = "nil"
          /\ queries' = Append(Tail(queries), Head(queries))
          /\ UNCHANGED <<conn, wire, recv>>
       \/ /\ outcome = "ok"
          /\ conn = "nil" => recv.pc = "off"
          /\ conn' = "open"
          /\ recv' = IF conn = "nil" THEN [pc |-> "read"] ELSE recv
          /\ wire' = wire \cup {Head(queries)}
          /\ queries' = Tail(queries)
       \/ /\ outcome = "writefail"
          /\ conn = "nil" => recv.pc = "off"
          /\ conn' = "nil"
          /\ recv' = IF conn = "nil" THEN [pc |-> "read"] ELSE recv
          /\ queries' = Append(Tail(queries), Head(queries))
          /\ UNCHANGED wire
    /\ UNCHANGED <<uq, sessions, respCh, inbox>>
    /\ UNCHANGED <<cbVars, trieVars, routerVars, cacheVars, poolVars, fallbackVars, fwdVars, dmVars, myipVars, lifeVars, cmVars, drainVars, newVars, deadlineVars>>

\* The upstream answers a query with a response of the same ID.
UdpUpstreamReply(m) ==
    /\ UdpRunning
    /\ m \in wire
    /\ wire' = wire \ {m}
    /\ inbox' = inbox \cup {m}
    /\ UNCHANGED <<uq, sessions, respCh, queries, conn, recv>>
    /\ UNCHANGED <<cbVars, trieVars, routerVars, cacheVars, poolVars, fallbackVars, fwdVars, dmVars, myipVars, lifeVars, cmVars, drainVars, newVars, deadlineVars>>

\* receive: conn.Read fails on the closed connection and receive returns.
UdpReceiveClosed ==
    /\ UdpRunning
    /\ recv.pc = "read"
    /\ conn = "nil"
    /\ recv' = [pc |-> "off"]
    /\ UNCHANGED <<uq, sessions, respCh, queries, conn, wire, inbox>>
    /\ UNCHANGED <<cbVars, trieVars, routerVars, cacheVars, poolVars, fallbackVars, fwdVars, dmVars, myipVars, lifeVars, cmVars, drainVars, newVars, deadlineVars>>

\* receive: read a response and load the session stored under its ID.
UdpReceiveLoad(resp) ==
    /\ UdpRunning
    /\ recv.pc = "read"
    /\ conn = "open"
    /\ resp \in inbox
    /\ inbox' = inbox \ {resp}
    /\ recv' = IF sessions[GetID(resp)] # 0
               THEN [pc |-> "loaded", resp |-> resp,
                     session |-> sessions[GetID(resp)]]
               ELSE recv
    /\ UNCHANGED <<uq, sessions, respCh, queries, conn, wire>>
    /\ UNCHANGED <<cbVars, trieVars, routerVars, cacheVars, poolVars, fallbackVars, fwdVars, dmVars, myipVars, lifeVars, cmVars, drainVars, newVars, deadlineVars>>

\* receive: the non-blocking send on the loaded session's channel.  A send
\* on a closed channel panics; a send on a full channel is dropped.
UdpReceiveDeliver ==
    /\ UdpRunning
    /\ recv.pc = "loaded"
    /\ IF respCh[recv.session].closed
       THEN recv' = [pc |-> "panic"] /\ UNCHANGED respCh
       ELSE /\ recv' = [pc |-> "read"]
            /\ respCh' = IF Len(respCh[recv.session].buf) < 1
                         THEN [respCh EXCEPT ![recv.session].buf =
                                   Append(@, recv.resp)]
                         ELSE respCh
    /\ UNCHANGED <<uq, sessions, queries, conn, wire, inbox>>
    /\ UNCHANGED <<cbVars, trieVars, routerVars, cacheVars, poolVars, fallbackVars, fwdVars, dmVars, myipVars, lifeVars, cmVars, drainVars, newVars, deadlineVars>>

NextUdp ==
    \/ \E q \in Calls, oldQID \in QueryIDs, newQID \in QueryIDs :
           UdpQueryStore(q, oldQID, newQID)
    \/ \E q \in Calls : UdpQuerySend(q)
    \/ \E q \in Calls : UdpQueryCtxDone(q)
    \/ \E q \in Calls : UdpQueryResponse(q)
    \/ \E outcome \in {"ok", "dialfail", "writefail"} : UdpWorker(outcome)
    \/ \E m \in wire : UdpUpstreamReply(m)
    \/ UdpReceiveClosed
    \/ \E resp \in inbox : UdpReceiveLoad(resp)
    \/ UdpReceiveDeliver

SpecUdp == Init /\ [][NextUdp]_vars

(***************************************************************************)
(* The TTL cache.  Every operation runs under the lock of the cache and is *)
(* one step; a pass of the sweeper is the locked collection and then one   *)
(* step for each eviction callback it invokes outside the lock.  The       *)
(* history variables follow the entries by the value stored in them.       *)
(***************************************************************************)
\* What became of the entries between the items before and after a call.
FateAfter(before, after, reason) ==
    [v \in CacheValues |->
        IF \E k \in CacheKeys : after[k] # NoItem /\ after[k].value = v
        THEN "stored"
        ELSE IF \E k \in CacheKeys : before[k] # NoItem /\ before[k].value = v
        THEN reason
        ELSE fate[v]]

\* The callbacks invoked on the entries of the given values.
FiredAfter(values) ==
    [v \in CacheValues |-> IF v \in values THEN fired[v] + 1 ELSE fired[v]]

CaAdd(k, ttl) ==
    /\ nextValue <= MaxStores
    /\ LET r == CacheAdd(items, k, nextValue, ttl, now)
       IN  /\ items' = r.items
           /\ nextValue' = IF r.err THEN nextValue ELSE nextValue + 1
           /\ fate' = FateAfter(items, r.items, "replaced")
           /\ lastStore' = [lastStore EXCEPT ![k] =
                  IF r.err THEN None
                  ELSE [op |-> "add", value |-> nextValue, time |-> now,
                        ttl |-> ttl, had |-> items[k]]]
           /\ popped' = [popped EXCEPT ![k] = r.err /\ popped[k]]
           /\ cop' = [op |-> "add", key |-> k, value |-> nextValue,
                      ttl |-> ttl, time |-> now, had |-> items[k],
                      after |-> r.items[k], err |-> r.err]
    /\ UNCHANGED <<now, cleaning, closed, fired>>
    /\ UNCHANGED <<cbVars, trieVars, routerVars, udpVars, poolVars, fallbackVars, fwdVars, dmVars, myipVars, lifeVars, cmVars, drainVars, newVars, deadlineVars>>

CaSet(k, ttl) ==
    /\ nextValue <= MaxStores
    /\ items' = CacheSet(items, k, nextValue, ttl, now)
    /\ nextValue' = nextValue + 1
    /\ fate' = FateAfter(items, items', "replaced")
    /\ lastStore' = [lastStore EXCEPT ![k] =
           [op |-> "set", value |-> nextValue, time |-> now, ttl |-> ttl,
            had |-> items[k]]]
    /\ popped' = [popped EXCEPT ![k] = FALSE]
    /\ cop' = [op |-> "set", key |-> k, value |-> nextValue, ttl |-> ttl,
               time |-> now, had |-> items[k]]
    /\ UNCHANGED <<now, cleaning, closed, fired>>
    /\ UNCHANGED <<cbVars, trieVars, routerVars, udpVars, poolVars, fallbackVars, fwdVars, dmVars, myipVars, lifeVars, cmVars, drainVars, newVars, deadlineVars>>

CaGet(k) ==
    /\ LET r == CacheGet(items, k, now)
       IN  cop' = [op |-> "get", key |-> k, time |-> now, had |-> items[k],
                   value |-> r.value, exists |-> r.exists,
                   store |-> lastStore[k], afterPop |-> popped[k]]
    /\ UNCHANGED <<now, items, cleaning, closed, nextValue, fate, fired,
                   lastStore, popped>>
    /\ UNCHANGED <<cbVars, trieVars, routerVars, udpVars, poolVars, fallbackVars, fwdVars, dmVars, myipVars, lifeVars, cmVars, drainVars, newVars, deadlineVars>>

CaPop(k) ==
    /\ \E read \in {items[k]} \cup OtherItems(now) :
          LET r == CachePop(items, k, now, read)
          IN  /\ items' = r.items
              /\ fate' = FateAfter(items, r.items, "popped")
              /\ fired' = FiredAfter({e.value : e \in r.evicted})
              /\ cop' = [op |-> "pop", key |-> k, time |-> now,
                         had |-> items[k], after |-> r.items[k],
                         value |-> r.value, exists |-> r.exists,
                         afterPop |-> popped[k]]
    /\ lastStore' = [lastStore EXCEPT ![k] = None]
    /\ popped' = [popped EXCEPT ![k] = TRUE]
    /\ UNCHANGED <<now, cleaning, closed, nextValue>>
    /\ UNCHANGED <<cbVars, trieVars, routerVars, udpVars, poolVars, fallbackVars, fwdVars, dmVars, myipVars, lifeVars, cmVars, drainVars, newVars, deadlineVars>>

CaDelete(k) ==
    /\ LET r == CacheDelete(items, k)
       IN  /\ items' = r.items
           /\ fate' = FateAfter(items, r.items, "deleted")
           /\ fired' = FiredAfter({e.value : e \in r.evicted})
           /\ cop' = [op |-> "delete", key |-> k, time |-> now,
                      had |-> items[k]]
    /\ lastStore' = [lastStore EXCEPT ![k] = None]
    /\ UNCHANGED <<now, cleaning, closed, nextValue, popped>>
    /\ UNCHANGED <<cbVars, trieVars, routerVars, udpVars, poolVars, fallbackVars, fwdVars, dmVars, myipVars, lifeVars, cmVars, drainVars, newVars, deadlineVars>>

\* A tick of the sweeper: the locked part of the pass.  Beside the key and
\* the value it read, each collected entry remembers the value it held.
CaCleanCollect ==
    /\ ~closed
    /\ cleaning = {}
    /\ \E reused \in SUBSET CacheKeys :
          LET r == CacheClean(items, now, reused, OtherValue)
          IN  /\ reused \subseteq {e.key : e \in r.evictedItems}
              /\ items' = r.items
              /\ cleaning' = {[key |-> e.key, value |-> e.value,
                               entry |-> items[e.key].value] :
                                  e \in r.evictedItems}
              /\ fate' = FateAfter(items, r.items, "swept")
    /\ UNCHANGED <<now, closed, nextValue, fired, lastStore, popped, cop>>
    /\ UNCHANGED <<cbVars, trieVars, routerVars, udpVars, poolVars, fallbackVars, fwdVars, dmVars, myipVars, lifeVars, cmVars, drainVars, newVars, deadlineVars>>

\* The sweeper invokes the eviction callback on one collected entry.
CaCleanCallback ==
    /\ \E e \in cleaning :
          /\ fired' = FiredAfter({e.entry})
          /\ cleaning' = cleaning \ {e}
    /\ UNCHANGED <<now, items, closed, nextValue, fate, lastStore, popped,
                   cop>>
    /\ UNCHANGED <<cbVars, trieVars, routerVars, udpVars, poolVars, fallbackVars, fwdVars, dmVars, myipVars, lifeVars, cmVars, drainVars, newVars, deadlineVars>>

\* Cache.Close: the sweeper stops after the pass in progress.
CaClose ==
    /\ ~closed
    /\ cleaning = {}
    /\ closed' = TRUE
    /\ UNCHANGED <<now, items, cleaning, nextValue, fate, fired, lastStore,
                   popped, cop>>
    /\ UNCHANGED <<cbVars, trieVars, routerVars, udpVars, poolVars, fallbackVars, fwdVars, dmVars, myipVars, lifeVars, cmVars, drainVars, newVars, deadlineVars>>

\* Time passes.
CaTick ==
    /\ now < MaxTime
    /\ now' = now + 1
    /\ UNCHANGED <<items, cleaning, closed, nextValue, fate, fired,
                   lastStore, popped, cop>>
    /\ UNCHANGED <<cbVars, trieVars, routerVars, udpVars, poolVars, fallbackVars, fwdVars, dmVars, myipVars, lifeVars, cmVars, drainVars, newVars, deadlineVars>>

NextCache ==
    \/ \E k \in CacheKeys, ttl \in TTLs : CaAdd(k, ttl)
    \/ \E k \in CacheKeys, ttl \in TTLs : CaSet(k, ttl)
    \/ \E k \in CacheKeys : CaGet(k)
    \/ \E k \in CacheKeys : CaPop(k)
    \/ \E k \in CacheKeys : CaDelete(k)
    \/ CaCleanCollect
    \/ CaCleanCallback
    \/ CaClose
    \/ CaTick

SpecCache == Init /\ [][NextCache]_vars

(***************************************************************************)
(* ResolverTCP.Query calls on the connection pool of one resolver.  Each   *)
(* call walks through its retry loop; `attempts` records, for every        *)
(* connection the call obtained, the stage at which its use failed, and    *)
(* `puts` every connPool.Put of the call.                                  *)
(***************************************************************************)
\* The connections after the pool closed the given ones.
ConnsClosed(cs, closedConns) ==
    [c \in ConnIds |-> IF c \in closedConns THEN "closed" ELSE cs[c]]

\* A connection not dialed yet.
FreshConn == CHOOSE c \in ConnIds : conns[c] = "none" /\
                 \A d \in ConnIds : conns[d] = "none" => c <= d

TqStart(q) ==
    /\ tq[q].pc = "idle"
    /\ tq' = [tq EXCEPT ![q] = [IdleQuery EXCEPT !.pc = "head"]]
    /\ UNCHANGED <<pool, conns>>
    /\ UNCHANGED <<cbVars, trieVars, routerVars, udpVars, cacheVars, fallbackVars, fwdVars, dmVars, myipVars, lifeVars, cmVars, drainVars, newVars, deadlineVars>>

\* The head of the loop: the check of the context and the discard of the
\* connection of the previous attempt.
TqHead(q, ctxErr) ==
    /\ tq[q].pc = "head"
    /\ LET r == RetryHead(tq[q].conn, ctxErr)
           pp == IF r.put = NoConn
                 THEN [pool |-> pool, closedConn |-> NoConn]
                 ELSE PoolPut(pool, r.put, TRUE)
       IN  /\ pool' = pp.pool
           /\ conns' = ConnsClosed(conns, {pp.closedConn})
           /\ tq' = [tq EXCEPT ![q].conn = r.conn,
                               ![q].puts = IF r.put = NoConn THEN @
                                           ELSE Append(@, [conn |-> r.put,
                                                           discard |-> TRUE]),
                               ![q].pc = IF r.return THEN "defer" ELSE "get",
                               ![q].result =
                                   IF r.return THEN "ctx" ELSE "none"]
    /\ UNCHANGED <<cbVars, trieVars, routerVars, udpVars, cacheVars, fallbackVars, fwdVars, dmVars, myipVars, lifeVars, cmVars, drainVars, newVars, deadlineVars>>

\* connPool.Get() with an idle connection, found at once or while waiting
\* on the idle queue; after a broken one get() starts over.
TqGetIdle(q, alive) ==
    /\ tq[q].pc \in {"get", "wait"}
    /\ Len(pool.idle) > 0
    /\ LET r == PoolGetIdle(pool, alive)
       IN  /\ pool' = r.pool
           /\ conns' = IF alive THEN [conns EXCEPT ![r.conn] = "out"]
                       ELSE ConnsClosed(conns, {r.closedConn})
           /\ tq' = IF alive
                    THEN [tq EXCEPT ![q].conn = r.conn, ![q].err = FALSE,
                              ![q].pc = "write",
                              ![q].attempts = Append(@,
                                  [conn |-> r.conn, failed |-> "none"])]
                    ELSE [tq EXCEPT ![q].pc = "get"]
    /\ UNCHANGED <<cbVars, trieVars, routerVars, udpVars, cacheVars, fallbackVars, fwdVars, dmVars, myipVars, lifeVars, cmVars, drainVars, newVars, deadlineVars>>

\* connPool.Get() that dials.
TqGetDial(q, dialed) ==
    /\ tq[q].pc = "get"
    /\ PoolCanDial(pool)
    /\ \E c \in ConnIds : conns[c] = "none"
    /\ LET r == PoolGetDial(pool, FreshConn, dialed)
       IN  /\ pool' = r.pool
           /\ conns' = IF dialed THEN [conns EXCEPT ![r.conn] = "out"]
                       ELSE conns
           /\ tq' = IF dialed
                    THEN [tq EXCEPT ![q].conn = r.conn, ![q].err = FALSE,
                              ![q].pc = "write",
                              ![q].attempts = Append(@,
                                  [conn |-> r.conn, failed |-> "none"])]
                    ELSE [tq EXCEPT ![q].conn = NoConn, ![q].err = TRUE,
                              ![q].pc = "defer", ![q].result = "error"]
    /\ UNCHANGED <<cbVars, trieVars, routerVars, udpVars, cacheVars, fallbackVars, fwdVars, dmVars, myipVars, lifeVars, cmVars, drainVars, newVars, deadlineVars>>

\* connPool.Get() on a closed pool fails; the close of the queue also ends
\* the wait on it.
TqGetClosed(q) ==
    /\ tq[q].pc \in {"get", "wait"}
    /\ pool.closed
    /\ tq' = [tq EXCEPT ![q].conn = NoConn, ![q].err = TRUE,
                        ![q].pc = "defer", ![q].result = "error"]
    /\ UNCHANGED <<pool, conns>>
    /\ UNCHANGED <<cbVars, trieVars, routerVars, udpVars, cacheVars, fallbackVars, fwdVars, dmVars, myipVars, lifeVars, cmVars, drainVars, newVars, deadlineVars>>

\* connPool.Get() with no idle connection and the counter at max_conns: the
\* call blocks on the idle queue, until a connection is pushed to the queue
\* or the queue is closed.
TqGetBlock(q) ==
    /\ tq[q].pc = "get"
    /\ PoolGetBlocks(pool)
    /\ tq' = [tq EXCEPT ![q].pc = "wait"]
    /\ UNCHANGED <<pool, conns>>
    /\ UNCHANGED <<cbVars, trieVars, routerVars, udpVars, cacheVars, fallbackVars, fwdVars, dmVars, myipVars, lifeVars, cmVars, drainVars, newVars, deadlineVars>>

\* The write of the query, the read of the response length and the read of
\* the response content on the connection.
TqIO(q, stage, ok) ==
    /\ tq[q].pc = stage
    /\ stage \in {"write", "length", "content"}
    /\ tq' = [tq EXCEPT ![q] =
          IF ok
          THEN IF stage = "write" THEN [@ EXCEPT !.pc = "length"]
               ELSE IF stage = "length" THEN [@ EXCEPT !.pc = "content"]
               ELSE [@ EXCEPT !.pc = "defer", !.result = "resp"]
          ELSE LET failed == [@ EXCEPT !.err = TRUE, !.result = "error",
                                  !.attempts[Len(@.attempts)].failed = stage]
               IN  IF Retries(stage) /\ @.try + 1 < QueryTries
                   THEN [failed EXCEPT !.try = @ + 1, !.pc = "head",
                                       !.result = "none"]
                   ELSE [failed EXCEPT !.pc = "defer"]]
    /\ UNCHANGED <<pool, conns>>
    /\ UNCHANGED <<cbVars, trieVars, routerVars, udpVars, cacheVars, fallbackVars, fwdVars, dmVars, myipVars, lifeVars, cmVars, drainVars, newVars, deadlineVars>>

\* The deferred function: the connection held goes back to the pool, to be
\* discarded if Query failed.
TqDefer(q) ==
    /\ tq[q].pc = "defer"
    /\ LET c == tq[q].conn
           pp == IF c = NoConn
                 THEN [pool |-> pool, closedConn |-> NoConn]
                 ELSE PoolPut(pool, c, DeferredDiscard(tq[q].err))
       IN  /\ pool' = pp.pool
           /\ conns' = IF c = NoConn THEN conns
                       ELSE IF pp.closedConn = NoConn
                       THEN [conns EXCEPT ![c] = "idle"]
                       ELSE ConnsClosed(conns, {pp.closedConn})
    /\ tq' = [tq EXCEPT ![q].pc = "done",
                        ![q].puts = IF tq[q].conn = NoConn THEN @
                                    ELSE Append(@, [conn |-> tq[q].conn,
                                                    discard |->
                                                      DeferredDiscard(tq[q].err)])]
    /\ UNCHANGED <<cbVars, trieVars, routerVars, udpVars, cacheVars, fallbackVars, fwdVars, dmVars, myipVars, lifeVars, cmVars, drainVars, newVars, deadlineVars>>

\* The caller has the result; it may call Query again.
TqReturn(q) ==
    /\ tq[q].pc = "done"
    /\ tq' = [tq EXCEPT ![q] = IdleQuery]
    /\ UNCHANGED <<pool, conns>>
    /\ UNCHANGED <<cbVars, trieVars, routerVars, udpVars, cacheVars, fallbackVars, fwdVars, dmVars, myipVars, lifeVars, cmVars, drainVars, newVars, deadlineVars>>

\* ResolverTCP.Close: connPool.Close().
TqClosePool ==
    /\ ~pool.closed
    /\ LET r == PoolClose(pool)
       IN  /\ pool' = r.pool
           /\ conns' = ConnsClosed(conns, r.closedConns)
    /\ UNCHANGED tq
    /\ UNCHANGED <<cbVars, trieVars, routerVars, udpVars, cacheVars, fallbackVars, fwdVars, dmVars, myipVars, lifeVars, cmVars, drainVars, newVars, deadlineVars>>

\* The deadline of the context of a running call passes.
TqDeadline(q) ==
    /\ tq[q].pc \notin {"idle", "done"}
    /\ ~dl[q]
    /\ dl' = [dl EXCEPT ![q] = TRUE]
    /\ UNCHANGED <<cbVars, trieVars, routerVars, udpVars, cacheVars, poolVars, fallbackVars, fwdVars, dmVars, myipVars, lifeVars, cmVars, drainVars, newVars>>

\* Query calls, each made once with a context that has a deadline: the head
\* of the loop sees ctx.Err() once the deadline has passed.
NextDeadline ==
    \/ \E q \in Queries : TqStart(q)
    \/ \E q \in Queries : TqDeadline(q)
    \/ \E q \in Queries : TqHead(q, dl[q])
    \/ \E q \in Queries, alive \in BOOLEAN : TqGetIdle(q, alive)
    \/ \E q \in Queries, dialed \in BOOLEAN : TqGetDial(q, dialed)
    \/ \E q \in Queries : TqGetClosed(q)
    \/ \E q \in Queries, stage \in {"write", "length", "content"},
          ok \in BOOLEAN : TqIO(q, stage, ok)
    \/ \E q \in Queries : TqDefer(q)
    \/ TqClosePool

SpecDeadline == Init /\ [][NextDeadline]_vars

NextPool ==
    \/ \E q \in Queries : TqStart(q)
    \/ \E q \in Queries, ctxErr \in BOOLEAN : TqHead(q, ctxErr)
    \/ \E q \in Queries, alive \in BOOLEAN : TqGetIdle(q, alive)
    \/ \E q \in Queries, dialed \in BOOLEAN : TqGetDial(q, dialed)
    \/ \E q \in Queries : TqGetClosed(q)
    \/ \E q \in Queries, stage \in {"write", "length", "content"},
          ok \in BOOLEAN : TqIO(q, stage, ok)
    \/ \E q \in Queries : TqDefer(q)
    \/ \E q \in Queries : TqReturn(q)
    \/ TqClosePool

SpecPool == Init /\ [][NextPool]_vars

\* A step of the goroutine that runs the Query call q.
TqRun(q) ==
    \/ \E ctxErr \in BOOLEAN : TqHead(q, ctxErr)
    \/ \E alive \in BOOLEAN : TqGetIdle(q, alive)
    \/ \E dialed \in BOOLEAN : TqGetDial(q, dialed)
    \/ TqGetBlock(q)
    \/ TqGetClosed(q)
    \/ \E stage \in {"write", "length", "content"}, ok \in BOOLEAN :
          TqIO(q, stage, ok)
    \/ TqDefer(q)

\* Query calls, each made once, whose get() blocks on the idle queue of a
\* saturated pool.
NextProgress ==
    \/ \E q \in Queries : TqStart(q)
    \/ \E q \in Queries : TqRun(q)
    \/ TqClosePool

\* The goroutine of a call that can take a step takes one (the scheduler
\* runs every runnable goroutine, and every read and write ends, by its
\* deadline at the latest).  Nothing makes a caller call Query again or
\* close the resolver.
SpecProgress ==
    Init /\ [][NextProgress]_vars /\ \A q \in Queries : WF_vars(TqRun(q))

(***************************************************************************)
(* Forwarder.reply on one session: the bytes it sends.                     *)
(***************************************************************************)
FbReply(query, resp) ==
    /\ fb' = [query |-> query, resp |-> resp,
              sent |-> ReplyBytes(query, resp)]
    /\ UNCHANGED <<cbVars, trieVars, routerVars, udpVars, cacheVars, poolVars, fwdVars, dmVars, myipVars, lifeVars, cmVars, drainVars, newVars, deadlineVars>>

NextFallback ==
    \E query \in FallbackQueries, resp \in UpstreamResponses :
        FbReply(query, resp)

SpecFallback == Init /\ [][NextFallback]_vars

(***************************************************************************)
(* The forwarder at work.  Each session is handled by its own goroutine    *)
(* (handleQuery); its timer callback, the receive loop and the replies     *)
(* started by it are goroutines of their own.  The entries of the session  *)
(* cache live for sessionTimeout (10 s) and the timers fire after          *)
(* queryTimeout (5 s), so the cache is used at one instant of its clock.   *)
(* A panic of any goroutine ends the process.                              *)
(***************************************************************************)
\* handleQuery up to sessions.Set: the packet is dropped or its session
\* stored under its key.
FwdHandle(i, proto, len, parses, key) ==
    /\ ~fpanic
    /\ fs[i].pc = "idle"
    /\ LET sess == NewSession(proto, len, parses, key)
       IN  IF HandleGate(ReadLen(proto, len), parses) = "drop"
           THEN /\ fs' = [fs EXCEPT ![i] = [sess EXCEPT !.pc = "dropped"]]
                /\ UNCHANGED fsess
           ELSE /\ fs' = [fs EXCEPT ![i] = [sess EXCEPT !.pc = "query"]]
                /\ fsess' = CacheSet(fsess, key, i, DefaultTTL, 1)
    /\ UNCHANGED fpanic
    /\ UNCHANGED <<cbVars, trieVars, routerVars, udpVars, cacheVars, poolVars, fallbackVars, dmVars, myipVars, lifeVars, cmVars, drainVars, newVars, deadlineVars>>

\* Forwarder.query: without a resolver, or when the query cannot be built
\* or sent, it returns an error; otherwise the query is on its way.
FwdQuery(i, outcome) ==
    /\ ~fpanic
    /\ fs[i].pc = "query"
    /\ fs' = [fs EXCEPT ![i] =
                 IF outcome = "sent"
                 THEN [@ EXCEPT !.pc = "arm", !.sent = TRUE]
                 ELSE [@ EXCEPT !.pc = "failed", !.fail = outcome]]
    /\ UNCHANGED <<fsess, fpanic>>
    /\ UNCHANGED <<cbVars, trieVars, routerVars, udpVars, cacheVars, poolVars, fallbackVars, dmVars, myipVars, lifeVars, cmVars, drainVars, newVars, deadlineVars>>

\* handleQuery after an error of query: the session is deleted and the
\* client answered with the fallback.
FwdFailed(i) ==
    /\ ~fpanic
    /\ fs[i].pc = "failed"
    /\ LET r == Reply(fs[i], "nil")
       IN  /\ fsess' = CacheDelete(fsess, fs[i].key).items
           /\ fs' = [fs EXCEPT ![i] = [r.sess EXCEPT !.pc = "done"]]
           /\ fpanic' = r.panic
    /\ UNCHANGED <<cbVars, trieVars, routerVars, udpVars, cacheVars, poolVars, fallbackVars, dmVars, myipVars, lifeVars, cmVars, drainVars, newVars, deadlineVars>>

\* handleQuery after query: the timeout timer is started and assigned to
\* the session.
FwdArm(i) ==
    /\ ~fpanic
    /\ fs[i].pc = "arm"
    /\ fs' = [fs EXCEPT ![i].pc = "done", ![i].timer = "armed"]
    /\ UNCHANGED <<fsess, fpanic>>
    /\ UNCHANGED <<cbVars, trieVars, routerVars, udpVars, cacheVars, poolVars, fallbackVars, dmVars, myipVars, lifeVars, cmVars, drainVars, newVars, deadlineVars>>

\* The timer fires: its callback starts running.
FwdTimerFire(i) ==
    /\ ~fpanic
    /\ fs[i].pc # "idle"
    /\ fs[i].timer = "armed"
    /\ fs' = [fs EXCEPT ![i].timer = "firing"]
    /\ UNCHANGED <<fsess, fpanic>>
    /\ UNCHANGED <<cbVars, trieVars, routerVars, udpVars, cacheVars, poolVars, fallbackVars, dmVars, myipVars, lifeVars, cmVars, drainVars, newVars, deadlineVars>>

\* The timer callback: the session is deleted and the client answered with
\* the fallback.
FwdTimerRun(i) ==
    /\ ~fpanic
    /\ fs[i].pc # "idle"
    /\ fs[i].timer = "firing"
    /\ LET r == Reply(fs[i], "nil")
       IN  /\ fsess' = CacheDelete(fsess, fs[i].key).items
           /\ fs' = [fs EXCEPT ![i] = [r.sess EXCEPT !.timer = "fired"]]
           /\ fpanic' = r.panic
    /\ UNCHANGED <<cbVars, trieVars, routerVars, udpVars, cacheVars, poolVars, fallbackVars, dmVars, myipVars, lifeVars, cmVars, drainVars, newVars, deadlineVars>>

\* The response to the query of session i arrives: receive pops the
\* session stored under its key and starts a goroutine to reply to it.
FwdReceive(i) ==
    /\ ~fpanic
    /\ fs[i].pc # "idle"
    /\ fs[i].sent
    /\ ~fs[i].responded
    /\ LET r == CachePop(fsess, fs[i].key, 1, fsess[fs[i].key])
       IN  /\ fsess' = r.items
           /\ fs' = [j \in SessionIds |->
                        LET sj == IF j = i
                                  THEN [fs[j] EXCEPT !.responded = TRUE]
                                  ELSE fs[j]
                        IN  IF r.exists /\ r.value = j
                            THEN [sj EXCEPT !.replying = TRUE]
                            ELSE sj]
    /\ UNCHANGED fpanic
    /\ UNCHANGED <<cbVars, trieVars, routerVars, udpVars, cacheVars, poolVars, fallbackVars, dmVars, myipVars, lifeVars, cmVars, drainVars, newVars, deadlineVars>>

\* The goroutine started by receive replies with the response.
FwdReplyResponse(i) ==
    /\ ~fpanic
    /\ fs[i].pc # "idle"
    /\ fs[i].replying
    /\ LET r == Reply(fs[i], "resp")
       IN  /\ fs' = [fs EXCEPT ![i] = [r.sess EXCEPT !.replying = FALSE]]
           /\ fpanic' = r.panic
    /\ UNCHANGED fsess
    /\ UNCHANGED <<cbVars, trieVars, routerVars, udpVars, cacheVars, poolVars, fallbackVars, dmVars, myipVars, lifeVars, cmVars, drainVars, newVars, deadlineVars>>

NextFwd ==
    \/ \E i \in SessionIds, proto \in Protos, len \in PacketLens,
          parses \in BOOLEAN, key \in SessionKeys :
              FwdHandle(i, proto, len, parses, key)
    \/ \E i \in SessionIds, outcome \in {"noresolver", "error", "sent"} :
          FwdQuery(i, outcome)
    \/ \E i \in SessionIds : FwdFailed(i)
    \/ \E i \in SessionIds : FwdArm(i)
    \/ \E i \in SessionIds : FwdTimerFire(i)
    \/ \E i \in SessionIds : FwdTimerRun(i)
    \/ \E i \in SessionIds : FwdReceive(i)
    \/ \E i \in SessionIds : FwdReplyResponse(i)

SpecFwd == Init /\ [][NextFwd]_vars

(***************************************************************************)
(* A query message at work: it is parsed, given the client subnet and      *)
(* built.                                                                  *)
(***************************************************************************)
DmNewQueryMsg(msg) ==
    /\ dm.pc = "none"
    /\ LET r == NewQueryMsg(msg)
       IN  dm' = IF r.ret = "ok"
                 THEN [pc |-> "parsed", raw |-> msg, q |-> r, calls |-> 0]
                 ELSE [pc |-> r.ret, raw |-> msg]
    /\ UNCHANGED <<cbVars, trieVars, routerVars, udpVars, cacheVars, poolVars, fallbackVars, fwdVars, myipVars, lifeVars, cmVars, drainVars, newVars, deadlineVars>>

DmSetEdnsSubnet(a, prefixLen) ==
    /\ dm.pc \in {"parsed", "subnet"}
    /\ dm.calls < MaxSubnetCalls
    /\ LET r == SetEdnsSubnet(dm.q, a, prefixLen)
       IN  dm' = [pc |-> "subnet", raw |-> dm.raw, q |-> r.q,
                  calls |-> dm.calls + 1, before |-> dm.q, addr |-> a,
                  prefixLen |-> prefixLen, err |-> r.err,
                  set |-> (dm.pc = "subnet" /\ dm.set) \/ ~r.err]
    /\ UNCHANGED <<cbVars, trieVars, routerVars, udpVars, cacheVars, poolVars, fallbackVars, fwdVars, myipVars, lifeVars, cmVars, drainVars, newVars, deadlineVars>>

DmBuild ==
    /\ dm.pc \in {"parsed", "subnet"}
    /\ dm' = [pc |-> "built", raw |-> dm.raw, q |-> dm.q,
              msg |-> Build(dm.q),
              set |-> dm.pc = "subnet" /\ dm.set]
    /\ UNCHANGED <<cbVars, trieVars, routerVars, udpVars, cacheVars, poolVars, fallbackVars, fwdVars, myipVars, lifeVars, cmVars, drainVars, newVars, deadlineVars>>

NextDnsmsg ==
    \/ \E msg \in RawMsgs : DmNewQueryMsg(msg)
    \/ \E a \in Addrs, prefixLen \in PrefixLens : DmSetEdnsSubnet(a, prefixLen)
    \/ DmBuild

SpecDnsmsg == Init /\ [][NextDnsmsg]_vars

(***************************************************************************)
(* The calls on the store of the public addresses.                         *)
(***************************************************************************)
MyGetV4 ==
    /\ mop' = [op |-> "GetV4", res |-> GetV4(myIP)]
    /\ UNCHANGED myIP
    /\ UNCHANGED <<cbVars, trieVars, routerVars, udpVars, cacheVars, poolVars, fallbackVars, fwdVars, dmVars, lifeVars, cmVars, drainVars, newVars, deadlineVars>>

MyGetV6 ==
    /\ mop' = [op |-> "GetV6", res |-> GetV6(myIP)]
    /\ UNCHANGED myIP
    /\ UNCHANGED <<cbVars, trieVars, routerVars, udpVars, cacheVars, poolVars, fallbackVars, fwdVars, dmVars, lifeVars, cmVars, drainVars, newVars, deadlineVars>>

MySetV4(ip) ==
    LET r == SetV4(myIP, ip)
    IN  /\ myIP' = r.x
        /\ mop' = [op |-> "SetV4", ip |-> ip, err |-> r.err, before |-> myIP]
    /\ UNCHANGED <<cbVars, trieVars, routerVars, udpVars, cacheVars, poolVars, fallbackVars, fwdVars, dmVars, lifeVars, cmVars, drainVars, newVars, deadlineVars>>

MySetV6(ip) ==
    LET r == SetV6(myIP, ip)
    IN  /\ myIP' = r.x
        /\ mop' = [op |-> "SetV6", ip |-> ip, err |-> r.err, before |-> myIP]
    /\ UNCHANGED <<cbVars, trieVars, routerVars, udpVars, cacheVars, poolVars, fallbackVars, fwdVars, dmVars, lifeVars, cmVars, drainVars, newVars, deadlineVars>>

NextMyIP ==
    \/ MyGetV4
    \/ MyGetV6
    \/ \E ip \in IPStrings : MySetV4(ip)
    \/ \E ip \in IPStrings : MySetV6(ip)

SpecMyIP == Init /\ [][NextMyIP]_vars

(***************************************************************************)
(* The calls on the forwarder.  Nothing follows a panic or a Stop that     *)
(* does not return.                                                        *)
(***************************************************************************)
LifeAlive == fl.ret \notin {"panic", "hang"}

\* SetListen, SetListenDoT and SetListenDoH, before the forwarder starts.
LifeSetListen(listen, dot, doh) ==
    /\ LifeAlive
    /\ fl.op = "none"
    /\ fl' = [f |-> [fl.f EXCEPT !.Listen = listen, !.ListenDoT = dot,
                                 !.ListenDoH = doh],
              op |-> "SetListen", ret |-> "nil", starts |-> 0]
    /\ UNCHANGED <<cbVars, trieVars, routerVars, udpVars, cacheVars, poolVars, fallbackVars, fwdVars, dmVars, myipVars, cmVars, drainVars, newVars, deadlineVars>>

\* SetResolver: the resolver in place is closed and replaced.
LifeSetResolver ==
    /\ LifeAlive
    /\ fl.f.tasks = {}
    /\ fl.f.resolver # "open"
    /\ fl.op \in {"none", "SetListen"}
    /\ fl' = [f |-> [fl.f EXCEPT !.resolver = "open"],
              op |-> "SetResolver", ret |-> "nil", starts |-> fl.starts]
    /\ UNCHANGED <<cbVars, trieVars, routerVars, udpVars, cacheVars, poolVars, fallbackVars, fwdVars, dmVars, myipVars, cmVars, drainVars, newVars, deadlineVars>>

LifeStart(order, fails) ==
    /\ LifeAlive
    /\ fl.f.cancel = "nil"
    /\ fl.starts < MaxStarts
    /\ LET r == Start(fl.f, order, fails)
       IN  fl' = [f |-> r.f, op |-> "Start", ret |-> r.ret, before |-> fl.f,
                  starts |-> fl.starts + 1]
    /\ UNCHANGED <<cbVars, trieVars, routerVars, udpVars, cacheVars, poolVars, fallbackVars, fwdVars, dmVars, myipVars, cmVars, drainVars, newVars, deadlineVars>>

\* The receive goroutine makes the responses channel.
LifeReceive ==
    /\ LifeAlive
    /\ "receive" \in fl.f.tasks
    /\ fl.f.responses = "nil"
    /\ fl' = [fl EXCEPT !.f.responses = "open"]
    /\ UNCHANGED <<cbVars, trieVars, routerVars, udpVars, cacheVars, poolVars, fallbackVars, fwdVars, dmVars, myipVars, cmVars, drainVars, newVars, deadlineVars>>

LifeStop ==
    /\ LifeAlive
    /\ LET r == Stop(fl.f)
       IN  fl' = [f |-> r.f, op |-> "Stop", ret |-> r.ret, before |-> fl.f,
                  starts |-> fl.starts, stopped |-> fl.op = "Stop"]
    /\ UNCHANGED <<cbVars, trieVars, routerVars, udpVars, cacheVars, poolVars, fallbackVars, fwdVars, dmVars, myipVars, cmVars, drainVars, newVars, deadlineVars>>

NextLife ==
    \/ \E listen \in BOOLEAN, dot \in ListenCerts, doh \in ListenCerts :
          LifeSetListen(listen, dot, doh)
    \/ LifeSetResolver
    \/ \E order \in ProtoOrders, fails \in SUBSET Protos :
          LifeStart(order, fails)
    \/ LifeReceive
    \/ LifeStop

SpecLife == Init /\ [][NextLife]_vars

(***************************************************************************)
(* The crit-bit tree used as a map over byte strings.  `stored' is the     *)
(* map the calls describe: Insert adds an absent key, Set stores, Delete   *)
(* removes.  Nothing follows a panic.                                      *)
(***************************************************************************)
CmInsert(key, value) ==
    /\ ~co.panic
    /\ co.calls < MaxMapCalls
    /\ key \in StoredKeys \/ Cardinality(stored) < MaxKeys
    /\ LET r == Insert(tree, key, value)
       IN  /\ tree' = r.root
           /\ co' = [op |-> "Insert", key |-> key, ok |-> r.ok,
                     panic |-> r.panic, existed |-> key \in StoredKeys,
                     same |-> r.root = tree, calls |-> co.calls + 1]
    /\ stored' = IF key \in StoredKeys THEN stored
                 ELSE stored \cup {[key |-> key, value |-> value]}
    /\ UNCHANGED lp
    /\ UNCHANGED <<trieVars, routerVars, udpVars, cacheVars, poolVars, fallbackVars, fwdVars, dmVars, myipVars, lifeVars, drainVars, newVars, deadlineVars>>

CmSet(key, value) ==
    /\ ~co.panic
    /\ co.calls < MaxMapCalls
    /\ key \in StoredKeys \/ Cardinality(stored) < MaxKeys
    /\ LET r == Set(tree, key, value)
       IN  /\ tree' = r.root
           /\ co' = [op |-> "Set", key |-> key, ok |-> r.ok,
                     panic |-> r.panic, existed |-> key \in StoredKeys,
                     same |-> r.root = tree, calls |-> co.calls + 1]
    /\ stored' = {e \in stored : e.key # key}
                     \cup {[key |-> key, value |-> value]}
    /\ UNCHANGED lp
    /\ UNCHANGED <<trieVars, routerVars, udpVars, cacheVars, poolVars, fallbackVars, fwdVars, dmVars, myipVars, lifeVars, drainVars, newVars, deadlineVars>>

CmDelete(key) ==
    /\ ~co.panic
    /\ co.calls < MaxMapCalls
    /\ LET r == Delete(tree, key)
       IN  /\ tree' = r.root
           /\ co' = [op |-> "Delete", key |-> key, ok |-> r.ok,
                     panic |-> FALSE, existed |-> key \in StoredKeys,
                     same |-> r.root = tree, calls |-> co.calls + 1]
    /\ stored' = {e \in stored : e.key # key}
    /\ UNCHANGED lp
    /\ UNCHANGED <<trieVars, routerVars, udpVars, cacheVars, poolVars, fallbackVars, fwdVars, dmVars, myipVars, lifeVars, drainVars, newVars, deadlineVars>>

CmGet(key) ==
    /\ ~co.panic
    /\ co.calls < MaxMapCalls
    /\ LET r == Get(tree, key)
       IN  co' = [op |-> "Get", key |-> key, ok |-> r.ok, panic |-> FALSE,
                  existed |-> key \in StoredKeys, same |-> TRUE,
                  calls |-> co.calls + 1]
    /\ UNCHANGED <<tree, stored, lp>>
    /\ UNCHANGED <<trieVars, routerVars, udpVars, cacheVars, poolVars, fallbackVars, fwdVars, dmVars, myipVars, lifeVars, drainVars, newVars, deadlineVars>>

NextCritbitMap ==
    \/ \E key \in ByteKeys, value \in Values : CmInsert(key, value)
    \/ \E key \in ByteKeys, value \in Values : CmSet(key, value)
    \/ \E key \in ByteKeys : CmDelete(key)
    \/ \E key \in ByteKeys : CmGet(key)

SpecCritbitMap == Init /\ [][NextCritbitMap]_vars

(***************************************************************************)
(* Resolver Close: the queries in flight and the wait groups.              *)
(***************************************************************************)

\* NewResolverFromExport: NewResolverUDP adds its worker to the wait group
\* and starts it; NewResolverTCP starts nothing.
DrainNew(variant) ==
    /\ dr.variant = "none"
    /\ dr' = [dr EXCEPT !.variant = variant,
                        !.wgUDP = IF variant \in {"udp", "default"} THEN 1 ELSE 0,
                        !.worker = variant \in {"udp", "default"}]
    /\ UNCHANGED <<cbVars, trieVars, routerVars, udpVars, cacheVars, poolVars, fallbackVars, fwdVars, dmVars, myipVars, lifeVars, cmVars, newVars, deadlineVars>>

\* Query up to its first blocking point: wg.Add(1).
DrainQueryStart(q, isUDP) ==
    /\ dr.variant # "none"
    /\ dr.qs[q].pc = "idle"
    /\ LET side == QuerySide(dr.variant, isUDP)
       IN  dr' = [dr EXCEPT !.qs[q] = [pc |-> "run", side |-> side,
                                       before |-> dr.close = "none"],
                            !.wgTCP = IF side = "tcp" THEN @ + 1 ELSE @,
                            !.wgUDP = IF side = "udp" THEN @ + 1 ELSE @]
    /\ UNCHANGED <<cbVars, trieVars, routerVars, udpVars, cacheVars, poolVars, fallbackVars, fwdVars, dmVars, myipVars, lifeVars, cmVars, newVars, deadlineVars>>

\* Query returns (a response, an error or the end of its context): the
\* deferred wg.Done().
DrainQueryReturn(q) ==
    /\ dr.qs[q].pc = "run"
    /\ dr' = [dr EXCEPT !.qs[q].pc = "done",
                        !.wgTCP = IF dr.qs[q].side = "tcp" THEN @ - 1 ELSE @,
                        !.wgUDP = IF dr.qs[q].side = "udp" THEN @ - 1 ELSE @]
    /\ UNCHANGED <<cbVars, trieVars, routerVars, udpVars, cacheVars, poolVars, fallbackVars, fwdVars, dmVars, myipVars, lifeVars, cmVars, newVars, deadlineVars>>

\* ResolverUDP.worker dials for a query and starts the receive goroutine.
DrainWorkerDial ==
    /\ dr.worker
    /\ ~dr.receive
    /\ dr' = [dr EXCEPT !.receive = TRUE, !.wgUDP = @ + 1]
    /\ UNCHANGED <<cbVars, trieVars, routerVars, udpVars, cacheVars, poolVars, fallbackVars, fwdVars, dmVars, myipVars, lifeVars, cmVars, newVars, deadlineVars>>

\* ResolverUDP.worker sees its context cancelled: it closes the connection
\* and returns; the read of the receive goroutine then fails and it returns.
DrainWorkerExit ==
    /\ dr.worker
    /\ dr.cancelled
    /\ dr' = [dr EXCEPT !.worker = FALSE, !.wgUDP = @ - 1]
    /\ UNCHANGED <<cbVars, trieVars, routerVars, udpVars, cacheVars, poolVars, fallbackVars, fwdVars, dmVars, myipVars, lifeVars, cmVars, newVars, deadlineVars>>

DrainReceiveExit ==
    /\ dr.receive
    /\ ~dr.worker
    /\ dr' = [dr EXCEPT !.receive = FALSE, !.wgUDP = @ - 1]
    /\ UNCHANGED <<cbVars, trieVars, routerVars, udpVars, cacheVars, poolVars, fallbackVars, fwdVars, dmVars, myipVars, lifeVars, cmVars, newVars, deadlineVars>>

\* Close up to its first wait: ResolverUDP.Close cancels the worker;
\* ResolverTCP.Close, which ResolverDoT has too and with which
\* ResolverUT.Close begins, closes the pool.
DrainClose ==
    /\ dr.variant # "none"
    /\ dr.close = "none"
    /\ dr' = IF dr.variant = "udp"
             THEN [dr EXCEPT !.cancelled = TRUE, !.close = "udp"]
             ELSE [dr EXCEPT !.poolClosed = TRUE, !.close = "tcp"]
    /\ UNCHANGED <<cbVars, trieVars, routerVars, udpVars, cacheVars, poolVars, fallbackVars, fwdVars, dmVars, myipVars, lifeVars, cmVars, newVars, deadlineVars>>

\* r.wg.Wait() of ResolverTCP.Close returns; ResolverUT.Close goes on with
\* r.udp.Close().
DrainWaitTCP ==
    /\ dr.close = "tcp"
    /\ WgWait(dr.wgTCP)
    /\ dr' = IF dr.variant = "default"
             THEN [dr EXCEPT !.cancelled = TRUE, !.close = "udp"]
             ELSE [dr EXCEPT !.close = "returned"]
    /\ UNCHANGED <<cbVars, trieVars, routerVars, udpVars, cacheVars, poolVars, fallbackVars, fwdVars, dmVars, myipVars, lifeVars, cmVars, newVars, deadlineVars>>

\* r.wg.Wait() of ResolverUDP.Close returns.
DrainWaitUDP ==
    /\ dr.close = "udp"
    /\ WgWait(dr.wgUDP)
    /\ dr' = [dr EXCEPT !.close = "returned"]
    /\ UNCHANGED <<cbVars, trieVars, routerVars, udpVars, cacheVars, poolVars, fallbackVars, fwdVars, dmVars, myipVars, lifeVars, cmVars, newVars, deadlineVars>>

NextDrain ==
    \/ \E variant \in DrainVariants : DrainNew(variant)
    \/ \E q \in DrainQueries, isUDP \in BOOLEAN : DrainQueryStart(q, isUDP)
    \/ \E q \in DrainQueries : DrainQueryReturn(q)
    \/ DrainWorkerDial
    \/ DrainWorkerExit
    \/ DrainReceiveExit
    \/ DrainClose
    \/ DrainWaitTCP
    \/ DrainWaitUDP

SpecDrain == Init /\ [][NextDrain]_vars

(***************************************************************************)
(* Resolvers built from a ResolverExport.                                  *)
(***************************************************************************)

\* NewResolverFromExport(re), once: what it builds depends on re alone.
RvNew(re) ==
    /\ rv.op = "none"
    /\ LET n == NewResolverFrom(re)
       IN  rv' = [op |-> "new", re |-> re, res |-> n.res, err |-> n.err,
                  out |-> ZeroExport]
    /\ UNCHANGED <<cbVars, trieVars, routerVars, udpVars, cacheVars, poolVars, fallbackVars, fwdVars, dmVars, myipVars, lifeVars, cmVars, drainVars, deadlineVars>>

\* Export() of the resolver just built.
RvExport ==
    /\ rv.op = "new"
    /\ ~rv.err
    /\ rv' = [rv EXCEPT !.op = "export", !.out = ResolverExportOf(rv.res)]
    /\ UNCHANGED <<cbVars, trieVars, routerVars, udpVars, cacheVars, poolVars, fallbackVars, fwdVars, dmVars, myipVars, lifeVars, cmVars, drainVars, deadlineVars>>

NextNew ==
    \/ \E re \in ResolverExports : RvNew(re)
    \/ RvExport

SpecNew == Init /\ [][NextNew]_vars

(***************************************************************************)
(* C1: DNS trie match.                                                     *)
(***************************************************************************)
\* A name as DNS compares it: without the final dot and in lower case.
Normal(name) ==
    LET d == TrimSuffixDot(name) IN [i \in 1..Len(d) |-> keyXTable(d[i])]

\* n is the zone z or ends with "." + z.
InZone(n, z) ==
    \/ Normal(n) = Normal(z)
    \/ HasSuffix(Normal(n), Dot \o Normal(z))

ZonesOf(n) == {z \in zoneNames : InZone(n, z)}

LongestZoneOf(n) ==
    CHOOSE z \in ZonesOf(n) : \A y \in ZonesOf(n) : Len(Normal(y)) <= Len(Normal(z))

\* C1: Match(n) returns the zone z of the trie such that n is z or ends
\* with "." + z and z is the longest such zone, and returns no match when
\* there is no such zone.
C1_MatchIsLongestSuffixZone ==
    zm # None =>
        IF ZonesOf(zm.name) = {} THEN ~zm.res.ok
        ELSE /\ zm.res.ok
             /\ KeyString(zm.res.key) = Normal(LongestZoneOf(zm.name))

(***************************************************************************)
(* C2: crit-bit longest prefix.                                            *)
(***************************************************************************)
\* The stored entries whose key is a prefix of key, and the longest of them.
PrefixEntries(key) == {e \in stored : HasPrefix(key, e.key)}

LongestPrefixEntry(key) ==
    CHOOSE x \in PrefixEntries(key) :
        \A y \in PrefixEntries(key) : Len(y.key) <= Len(x.key)

\* C2: LongestPrefix(key) returns the stored entry whose key is the longest
\* stored prefix of key, and no entry iff no stored key is a prefix of key.
C2_LongestPrefixIsLongestStoredPrefix ==
    lp # None =>
        IF PrefixEntries(lp.key) = {} THEN ~lp.res.ok
        ELSE /\ lp.res.ok
             /\ lp.res.key = LongestPrefixEntry(lp.key).key
             /\ lp.res.value = LongestPrefixEntry(lp.key).value

(***************************************************************************)
(* C3: Router.GetResolver.                                                 *)
(***************************************************************************)
\* The zones of a route: the names its trie was built from.
RouteZones(rt) ==
    IF rt = NilRoute \/ rt.trie = NilTrie THEN {}
    ELSE {Export(rt.trie)[i] : i \in 1..Len(Export(rt.trie))}

\* The indexes of the routes that have a zone name is in.
MatchingRoutes(name) ==
    {i \in 0..(MaxRoutes - 1) : \E z \in RouteZones(routes[i]) : InZone(name, z)}

FirstMatchingRoute(name) ==
    CHOOSE i \in MatchingRoutes(name) : \A j \in MatchingRoutes(name) : i <= j

\* C3: GetResolver(qname) returns the resolver and the index of the
\* lowest-index route whose zones match qname, and the default resolver
\* (none when there is no default) with index -1 when no route matches.
C3_GetResolverFirstMatchingRoute ==
    gr # None =>
        /\ ~gr.res.panic
        /\ IF MatchingRoutes(gr.name) = {}
           THEN gr.res.resolver = resolver /\ gr.res.index = -1
           ELSE /\ gr.res.index = FirstMatchingRoute(gr.name)
                /\ gr.res.resolver = routes[FirstMatchingRoute(gr.name)].resolver

(***************************************************************************)
(* C4: longest-suffix dispatch in the scenario of three routes.            *)
(***************************************************************************)
\* The indexes of the routes named n.
IndexesOf(n) ==
    {i \in 0..(MaxRoutes - 1) : routes[i] # NilRoute /\ routes[i].name = n}

IndexOf(n) == CHOOSE i \in IndexesOf(n) : TRUE

\* The default resolver and the three routes are installed, each route at
\* one index.
ScenarioInstalled ==
    /\ resolver = "D"
    /\ \A n \in {"r1", "r2", "r3"} : Cardinality(IndexesOf(n)) = 1

\* C4 as claimed: whatever the indexes of the three routes, foo.example.com
\* is dispatched to R2, foo.bar.com to R1, anything.net to R3 and
\* anything.org to the default resolver.
C4_DispatchByLongestSuffix ==
    (ScenarioInstalled /\ gr # None) =>
        /\ gr.name = FooExampleCom => gr.res.resolver = "R2"
        /\ gr.name = FooBarCom => gr.res.resolver = "R1"
        /\ gr.name = AnythingNet => gr.res.resolver = "R3"
        /\ gr.name = AnythingOrg => gr.res.resolver = "D"

\* C4 as amended: foo.example.com is dispatched to R2 when the route of
\* example.com has a lower index than the route of com, and to R1 otherwise;
\* foo.bar.com goes to R1, anything.net to R3 and anything.org to the
\* default resolver with index -1.
C4_DispatchByRouteIndex ==
    (ScenarioInstalled /\ gr # None) =>
        /\ ~gr.res.panic
        /\ gr.name = FooExampleCom =>
               IF IndexOf("r2") < IndexOf("r1")
               THEN gr.res.resolver = "R2" /\ gr.res.index = IndexOf("r2")
               ELSE gr.res.resolver = "R1" /\ gr.res.index = IndexOf("r1")
        /\ gr.name = FooBarCom =>
               gr.res.resolver = "R1" /\ gr.res.index = IndexOf("r1")
        /\ gr.name = AnythingNet =>
               gr.res.resolver = "R3" /\ gr.res.index = IndexOf("r3")
        /\ gr.name = AnythingOrg =>
               gr.res.resolver = "D" /\ gr.res.index = -1

\* foo.example.com was asked for with the route of com ahead of the route
\* of example.com, and went to R1.
C4_Witness ==
    /\ ScenarioInstalled
    /\ gr # None
    /\ gr.name = FooExampleCom
    /\ IndexOf("r1") < IndexOf("r2")
    /\ gr.res.resolver = "R1"

(***************************************************************************)
(* C5, C6: the UDP resolver's query IDs and in-flight sessions.            *)
(***************************************************************************)
\* The calls between sessions.Store and the deferred sessions.Delete.
InFlight == {q \in Calls : uq[q].pc \in {"stored", "waiting"}}

\* The calls that returned a response.
Answered == {q \in Calls : uq[q].result # None /\ uq[q].result.kind = "resp"}

\* C5: every response Query returns to a caller that submitted a query
\* with ID x carries the ID x, whatever upstream ID was drawn and whatever
\* other calls are in flight.
C5_ResponseCarriesCallerID ==
    \A q \in Answered : GetID(uq[q].result.msg) = uq[q].oldQID

\* A call got a response back under an upstream ID other than its own ID,
\* while the other call was in flight.
C5_Witness ==
    \E q \in Answered :
        /\ uq[q].newQID # uq[q].oldQID
        /\ GetID(uq[q].result.msg) = uq[q].oldQID
        /\ InFlight # {}

\* C6: two calls in flight never share an entry of the in-flight map: the
\* entry of a call in flight is not overwritten by a later call that draws
\* the same upstream ID, so each call in flight keeps its own entry and a
\* response is delivered only to the call that sent the query it answers.
C6_InFlightEntriesNotOverwritten ==
    /\ \A q \in InFlight : sessions[uq[q].newQID] = q
    /\ \A q \in Answered : uq[q].result.msg.q = q

(***************************************************************************)
(* C7: TTL cache visibility.                                               *)
(***************************************************************************)
\* A Get of a key whose last operation was a Set with a positive TTL.
GetAfterSet ==
    /\ cop.op = "get"
    /\ cop.store # None
    /\ cop.store.op = "set"
    /\ cop.store.ttl > 0

Collected == {e.entry : e \in cleaning}

\* C8: the eviction callback of every stored entry fires exactly once, on
\* the sweep after its expiry or on delete(k), whatever set, add, get, pop,
\* delete and sweeper passes follow, and it never fires because of pop(k):
\* once the entry has left the cache other than by pop and the sweeper has
\* finished with it, its callback has fired once, and a popped entry's
\* callback has not fired.
C8_CallbackExactlyOnce ==
    \A v \in CacheValues :
        /\ fate[v] \in {"replaced", "deleted", "swept"} /\ v \notin Collected
               => fired[v] = 1
        /\ fate[v] = "popped" => fired[v] = 0

\* C8 as the code has it: the eviction callback of a stored entry fires at
\* most once; it has fired exactly when the entry was removed by delete(k)
\* or by a finished sweep after its expiry, and not when the entry was
\* popped, was replaced by a later set(k) or add(k), or is still stored.
C8_CallbackOnceOnSweepOrDelete ==
    \A v \in CacheValues :
        /\ fired[v] <= 1
        /\ fired[v] = 1 <=>
               fate[v] \in {"deleted", "swept"} /\ v \notin Collected

\* One entry was replaced without a callback and another swept with one.
C8_Witness ==
    \E v, w \in CacheValues :
        /\ fate[v] = "replaced" /\ fired[v] = 0
        /\ fate[w] = "swept" /\ w \notin Collected /\ fired[w] = 1

(***************************************************************************)
(* C9: TTL cache pop.                                                      *)
(***************************************************************************)
\* C9: pop(k) removes the entry of k if there is one, without invoking the
\* eviction callback, and returns its value iff the entry was still valid;
\* after pop(k), get(k) and a second pop(k) return absent until k is stored
\* again.
C9_PopRemovesAndReturnsValidValue ==
    /\ cop.op = "pop" =>
          /\ cop.after = NoItem
          /\ IF cop.had # NoItem /\ ~isExpired(cop.had, cop.time)
             THEN cop.exists /\ cop.value = cop.had.value
             ELSE ~cop.exists
    /\ cop.op \in {"get", "pop"} /\ cop.afterPop => ~cop.exists
    /\ \A v \in CacheValues : fate[v] = "popped" => fired[v] = 0

(***************************************************************************)
(* C10: TTL cache add.                                                     *)
(***************************************************************************)
\* The entry stored at time t with the given TTL is valid at time u.
ValidAt(t, ttl, u) ==
    \/ ttl < 0
    \/ ttl = 0 /\ u <= t + defaultTTL
    \/ ttl > 0 /\ u <= t + ttl

\* A Get of a key whose last operation was an Add that inserted.
GetAfterAdd ==
    /\ cop.op = "get"
    /\ cop.store # None
    /\ cop.store.op = "add"

CheckedOutOrIdle == {c \in ConnIds : conns[c] \in {"out", "idle"}}

\* C11: in every state of one pool, under any interleaving of get, put and
\* close, the checked-out plus idle connections are at most max_conns.
C11_PoolBound == Cardinality(CheckedOutOrIdle) <= PoolMaxConns

\* The pool is at its bound and a Query waits in get() for a connection.
C11_Witness ==
    /\ Cardinality(CheckedOutOrIdle) = PoolMaxConns
    /\ \E q \in Queries :
          /\ tq[q].pc = "get"
          /\ Len(pool.idle) = 0
          /\ ~PoolCanDial(pool)

(***************************************************************************)
(* C12: TCP-family resolver retry.                                         *)
(***************************************************************************)
\* C12: a query makes at most two attempts; the second happens only when
\* the first failed at the write or at the read of the response length, and
\* uses another connection; a failure after the length was read ends the
\* query with the error, without another attempt.
C12_RetryOnceBeforeLength ==
    \A q \in Queries :
        LET a == tq[q].attempts
        IN  /\ Len(a) <= 2
            /\ Len(a) = 2 =>
                  /\ a[1].failed \in {"write", "length"}
                  /\ a[2].conn # a[1].conn
            /\ \A i \in 1..Len(a) :
                  a[i].failed = "content" =>
                      /\ i = Len(a)
                      /\ tq[q].pc \in {"defer", "done"}
                      /\ tq[q].result = "error"

\* A query whose first attempt failed at the length read answered on its
\* second attempt.
C12_Witness ==
    \E q \in Queries :
        /\ tq[q].pc = "done"
        /\ tq[q].result = "resp"
        /\ Len(tq[q].attempts) = 2
        /\ tq[q].attempts[1].failed = "length"

(***************************************************************************)
(* C13: ServFail fallback bytes.                                           *)
(***************************************************************************)
\* The forwarder answered a query with the fallback.
AnsweredWithFallback == fb # None /\ Len(fb.resp) = 0

Accepted(i) == fs[i].pc \in {"query", "failed", "arm", "done"}

OwedServFail(i) ==
    /\ Accepted(i)
    /\ fs[i].fail # "none" \/ (fs[i].sent /\ ~fs[i].responded)

\* C14: every accepted query that has no resolver, whose upstream query
\* fails or that gets no response before the timeout is eventually
\* answered with the ServFail fallback, never left in silence: the process
\* does not die on a client that is owed the fallback and has no reply.
C14_NeverSilentOnFailure ==
    fpanic => \A i \in SessionIds : OwedServFail(i) => fs[i].replies # <<>>

(***************************************************************************)
(* C15: Input gating.                                                      *)
(***************************************************************************)
\* C15: on every transport a packet of length <= 12 or > 512, or one that
\* does not parse, never causes a query to be sent upstream.
C15_InvalidPacketsNeverSent ==
    \A i \in SessionIds :
        fs[i].pc # "idle" =>
            (fs[i].len <= 12 \/ fs[i].len > 512 \/ ~fs[i].parses
                => ~fs[i].sent)

(***************************************************************************)
(* C16: Session-key idempotence.                                           *)
(***************************************************************************)
\* C16: for every valid query Q (with extra questions, other records and
\* OPT records, with or without the client subnet set), the session key of
\* build(parse_query(Q)) is the session key of Q: the query is parsed and,
\* once built, has the ID, type and lower-cased name of Q.
C16_SessionKeyIdempotence ==
    dm.pc # "none" /\ ~RawMsgSessionKey(dm.raw).err =>
        /\ dm.pc \notin {"hang", "error"}
        /\ dm.pc = "built" =>
               RawMsgSessionKey(dm.msg) = RawMsgSessionKey(dm.raw)

(***************************************************************************)
(* C17: parse_query keeps the first OPT record.                            *)
(***************************************************************************)
OPTIndexes(adds) == {i \in 1..Len(adds) : adds[i].type = "OPT"}

FirstOPT(adds) ==
    adds[CHOOSE i \in OPTIndexes(adds) : \A j \in OPTIndexes(adds) : i <= j]

\* C17: a message whose additional section holds one or more OPT records,
\* in any position among other records, is parsed into a query whose OPT
\* header and options are those of the first OPT record.
C17_ParseKeepsFirstOPT ==
    /\ dm.pc \in {"parsed", "hang", "error"}
    /\ Len(dm.raw.questions) > 0
    /\ OPTIndexes(dm.raw.additionals) # {}
    => /\ dm.pc = "parsed"
       /\ dm.q.opt.header = FirstOPT(dm.raw.additionals).header
       /\ dm.q.opt.options = FirstOPT(dm.raw.additionals).options

(***************************************************************************)
(* C18: ECS prefix masking.                                                *)
(***************************************************************************)
SubnetIndexes(options) ==
    {i \in 1..Len(options) : options[i].code = optionCodeSubnet}

\* The data of the option written by the last SetEdnsSubnet call.
WrittenData ==
    LET is == SubnetIndexes(dm.q.opt.options)
    IN  dm.q.opt.options[CHOOSE i \in is : \A j \in is : i <= j].data

\* The prefix length of the claim: the given one, or the default of the
\* family when it is 0 or out of range.
ClaimedPrefix ==
    LET max == IF dm.addr.kind = "v4" THEN 32 ELSE 128
    IN  IF dm.prefixLen \in 1..max THEN dm.prefixLen
        ELSE IF dm.addr.kind = "v4" THEN 24 ELSE 56

\* ceil(p / 8)
CeilBytes(p) == CHOOSE n \in 0..16 : 8 * n >= p /\ 8 * (n - 1) < p

\* C18: the data of the option set by an accepted set_ecs call is the
\* family (1 for IPv4, 2 for IPv6), the source prefix length (the family
\* default 24 / 56 for a length of 0 or out of range), the scope prefix
\* length 0, and ceil(prefix / 8) bytes of the address whose bits after
\* the prefix are zero.
C18_SubnetDataMasked ==
    dm.pc = "subnet" /\ ~dm.err =>
        LET data == WrittenData
            p == ClaimedPrefix
        IN  /\ Len(data) = 4 + CeilBytes(p)
            /\ data[1] = 0
            /\ data[2] = (IF dm.addr.kind = "v4" THEN 1 ELSE 2)
            /\ data[3] = p
            /\ data[4] = 0
            /\ \A k \in 1..CeilBytes(p), b \in 0..7 :
                   Bit(data[4 + k], b) =
                       IF 8 * (k - 1) + (7 - b) < p
                       THEN Bit(dm.addr.bytes[k], b) ELSE 0

\* 1.2.255.129/20 is written as 1.2.240.
C18_Witness ==
    /\ dm.pc = "subnet"
    /\ ~dm.err
    /\ dm.addr.bytes = <<1, 2, 255, 129>>
    /\ dm.prefixLen = 20
    /\ WrittenData = <<0, 1, 20, 0, 1, 2, 240>>

(***************************************************************************)
(* C19: ECS option uniqueness.                                             *)
(***************************************************************************)
OtherOptions(options) ==
    SelectSeq(options, LAMBDA o : o.code # optionCodeSubnet)

OPTRecords(msg) == Cardinality(OPTIndexes(msg.additionals))

\* C19 as stated: after any number of set_ecs calls on a parsed query (one
\* of them accepted) the options hold exactly one option with code 8,
\* every other option of the parsed query is kept, and build emits exactly
\* one OPT record.
C19_ExactlyOneSubnetOption ==
    /\ dm.pc = "subnet" /\ dm.set =>
           /\ Cardinality(SubnetIndexes(dm.q.opt.options)) = 1
           /\ OtherOptions(dm.q.opt.options)
                  = OtherOptions(NewQueryMsg(dm.raw).opt.options)
    /\ dm.pc = "built" /\ dm.set => OPTRecords(dm.msg) = 1

\* C19, amended: a set_ecs call with an invalid or unspecified address
\* changes nothing; an accepted call overwrites the data of the first
\* option with code 8 and keeps later ones, or appends the option when
\* there is none, so that after an accepted call the options hold at least
\* one option with code 8 and exactly one when the parsed query held at
\* most one; every other option is kept with its data, and build emits
\* exactly one OPT record, with these options.
C19_FirstSubnetOptionOverwritten ==
    LET parsed == NewQueryMsg(dm.raw).opt.options
        had == Cardinality(SubnetIndexes(parsed))
    IN  /\ dm.pc = "subnet" =>
               LET old == dm.before.opt.options
                   new == dm.q.opt.options
               IN  /\ dm.err => dm.q = dm.before
                   /\ ~dm.err /\ SubnetIndexes(old) = {} =>
                          /\ Len(new) = Len(old) + 1
                          /\ SubSeq(new, 1, Len(old)) = old
                          /\ new[Len(new)].code = optionCodeSubnet
                   /\ ~dm.err /\ SubnetIndexes(old) # {} =>
                          /\ Len(new) = Len(old)
                          /\ \A i \in 1..Len(old) :
                                 \/ new[i] = old[i]
                                 \/ /\ new[i].code = optionCodeSubnet
                                    /\ \A j \in SubnetIndexes(old) : i <= j
                   /\ dm.set =>
                          Cardinality(SubnetIndexes(new))
                              = (IF had = 0 THEN 1 ELSE had)
                   /\ OtherOptions(new) = OtherOptions(parsed)
        /\ dm.pc = "built" /\ dm.set =>
               /\ OPTRecords(dm.msg) = 1
               /\ Len(dm.msg.additionals) = 1
               /\ dm.msg.additionals[1].options = dm.q.opt.options

\* The client subnet of the parsed query is overwritten, its other option
\* is kept, and the query is built.
C19_Witness ==
    /\ dm.pc = "built"
    /\ dm.set
    /\ NewQueryMsg(dm.raw).opt.options = OPT2.options
    /\ Len(dm.q.opt.options) = 2
    /\ dm.q.opt.options[1].code = optionCodeSubnet
    /\ dm.q.opt.options[1].data # OPT2.options[1].data
    /\ dm.q.opt.options[2] = OPT2.options[2]

(***************************************************************************)
(* C20: MyIP store.                                                        *)
(***************************************************************************)
\* The public addresses among the strings of the model, by family.
PublicV4 == {ParseAddr(ip).addr : ip \in {"172.32.0.1", "203.0.113.5"}}

PublicV6 == {ParseAddr(ip).addr : ip \in {"fe00::1", "2001:db8::1"}}

\* C20: after any sequence of SetV4 and SetV6 calls each stored address is
\* unset (the reader returns valid = false) or a public address of its
\* family; a write of anything else returns an error and leaves both
\* stored addresses unchanged.
C20_StoredAddressesPublic ==
    /\ myIP.ipv4 \in {ZeroAddr} \cup PublicV4
    /\ myIP.ipv6 \in {ZeroAddr} \cup PublicV6
    /\ GetV4(myIP).valid = (myIP.ipv4 # ZeroAddr)
    /\ GetV6(myIP).valid = (myIP.ipv6 # ZeroAddr)
    /\ mop.op = "SetV4" =>
           /\ mop.err = (ParseAddr(mop.ip).addr \notin PublicV4)
           /\ mop.err => myIP = mop.before
           /\ ~mop.err => myIP = [mop.before EXCEPT
                                     !.ipv4 = ParseAddr(mop.ip).addr]
    /\ mop.op = "SetV6" =>
           /\ mop.err = (ParseAddr(mop.ip).addr \notin PublicV6)
           /\ mop.err => myIP = mop.before
           /\ ~mop.err => myIP = [mop.before EXCEPT
                                     !.ipv6 = ParseAddr(mop.ip).addr]

\* A private address is refused while both addresses are set.
C20_Witness ==
    /\ mop.op = "SetV6"
    /\ mop.ip = "fd00::1"
    /\ mop.err
    /\ myIP.ipv4 \in PublicV4
    /\ myIP.ipv6 \in PublicV6

(***************************************************************************)
(* C21: Forwarder start().                                                 *)
(***************************************************************************)
\* C21: Start reports success only if at least one listener is configured
\* and every configured socket was bound; when it reports failure, no
\* socket it opened remains open and no goroutine was started.
C21_StartSucceedsOnlyWhenBound ==
    fl.op = "Start" =>
        /\ fl.ret = "nil" =>
               /\ ListenConfigs(fl.before) # {}
               /\ \A p \in ListenConfigs(fl.before) : fl.f.socks[p] = "open"
        /\ fl.ret = "error" =>
               /\ \A p \in Protos : fl.f.socks[p] # "open"
               /\ fl.f.tasks = {}

(***************************************************************************)
(* C22: Forwarder stop() idempotence.                                      *)
(***************************************************************************)
\* C22: a second Stop on a forwarder that was started and has been stopped
\* returns, closes nothing twice and leaves the forwarder as it was.
C22_SecondStopIsNoOp ==
    fl.op = "Stop" /\ fl.stopped /\ fl.before.cancel = "set" =>
        /\ fl.ret = "ok"
        /\ fl.f = fl.before

(***************************************************************************)
(* C23: Iterative and recursive longest-prefix agree.                      *)
(***************************************************************************)
\* C23: on every tree built by inserts, sets and deletes, and for every
\* key, LongestPrefix returns the (key, value, found) that the recursive
\* LongestPrefixR returns.
C23_IterativeAgreesWithRecursive ==
    lp.kind = "call" =>
        LET r == LongestPrefixR(tree, lp.key)
        IN  /\ lp.res.ok = r.ok
            /\ lp.res.key = r.key
            /\ r.ok => lp.res.value = r.value
            /\ ~r.ok /\ ~lp.res.ok => lp.res = r

(***************************************************************************)
(* C24: Crit-bit tree is a map over byte strings.                          *)
(***************************************************************************)
\* C24: for any sequence of Insert, Set and Delete over byte-string keys
\* (the empty key and keys with 0x00 bytes included) no call panics, Get
\* returns the value last stored for a key and nothing for a key never
\* stored or deleted, Insert of an existing key returns false and changes
\* nothing, and Delete of a missing key returns false and changes nothing.
C24_TreeIsAMap ==
    /\ ~co.panic
    /\ \A k \in ByteKeys :
           /\ Get(tree, k).ok = (k \in StoredKeys)
           /\ k \in StoredKeys =>
                  [key |-> k, value |-> Get(tree, k).value] \in stored
    /\ co.op \in {"Insert", "Delete", "Get"} => co.ok = (co.existed = (co.op # "Insert"))
    /\ co.op = "Insert" /\ co.existed => co.same
    /\ co.op = "Delete" /\ ~co.existed => co.same

(***************************************************************************)
(* C25: DNS trie name normalization.                                       *)
(***************************************************************************)
\* A name without one trailing dot and in lower case.
LowerName(name) ==
    LET n == IF Len(name) > 0 /\ name[Len(name)] = 46
             THEN Len(name) - 1 ELSE Len(name)
    IN  [i \in 1..n |-> IF name[i] \in 65..90 THEN name[i] + 32 ELSE name[i]]

\* Names that differ only in letter case or in one trailing dot.
SameName(a, b) == LowerName(a) = LowerName(b)

\* C25: names that differ only in ASCII letter case or in one trailing dot
\* have the same trie key (the lower-case name without the trailing dot,
\* reversed, followed by a dot), so that AddZone, HasZone, DeleteZone and
\* Match treat them as one name, and Key.String returns the lower-case
\* name without the trailing dot.
C25_NamesNormalized ==
    /\ \A a \in DNames :
           /\ KeyString(NewKey(a)) = LowerName(a)
           /\ NewKey(a) = [i \in 1..(Len(LowerName(a)) + 1) |->
                              IF i > Len(LowerName(a)) THEN 46
                              ELSE LowerName(a)[Len(LowerName(a)) - i + 1]]
    /\ \A a, b \in DNames :
           SameName(a, b) =>
               /\ NewKey(a) = NewKey(b)
               /\ HasZone(zoneTrie, a) = HasZone(zoneTrie, b)
               /\ Match(zoneTrie, a) = Match(zoneTrie, b)
               /\ HasZone(AddZone(zoneTrie, a), b)
               /\ ~HasZone(DeleteZone(zoneTrie, a), b)
    /\ \A a \in zoneNames, b \in DNames : SameName(a, b) => HasZone(zoneTrie, b)

\* The zone "COM." is held and found as "com", and "A.com" is matched.
C25_Witness ==
    /\ <<67, 79, 77, 46>> \in zoneNames
    /\ HasZone(zoneTrie, <<99, 111, 109>>)
    /\ zm.kind = "call"
    /\ zm.name = <<65, 46, 99, 111, 109>>
    /\ zm.res.ok

\* C26: when Close of a resolver returns, whatever its variant, no Query
\* call that began on it before Close was called is still running.
C26_CloseDrains ==
    dr.close = "returned" =>
        \A q \in DrainQueries : dr.qs[q].before => dr.qs[q].pc # "run"

\* Close of a UDP+TCP resolver has returned after a query on each backend
\* that began before it.
C26_Witness ==
    /\ dr.variant = "default"
    /\ dr.close = "returned"
    /\ \E q1, q2 \in DrainQueries :
           /\ dr.qs[q1].before /\ dr.qs[q1].side = "tcp" /\ dr.qs[q1].pc = "done"
           /\ dr.qs[q2].before /\ dr.qs[q2].side = "udp" /\ dr.qs[q2].pc = "done"

\* The value a numeric field of a spec stands for: its default when zero.
OrDefault(given, default) == IF given = 0 THEN default ELSE given

\* C27: a resolver built from a spec has, for each of pool_max_conns,
\* pool_idle_conns, the dial timeout, the handshake timeout (DoT) and, with
\* keep-alive enabled, the keep-alive idle, interval and count, the value
\* of the spec when it is not zero and the default (20, 10, 5 s, 5 s, 15 s,
\* 15 s, 3) when it is; its Export gives the same values.
C27_ZeroFieldsTakeDefaults ==
    rv.op \in {"new", "export"} /\ ~rv.err /\ rv.res.kind \in {"tcp", "dot", "default"} =>
        LET t == IF rv.res.kind = "tcp" THEN rv.res ELSE rv.res.tcp
            re == rv.re
        IN  /\ t.poolMaxConns = OrDefault(re.PoolMaxConns, defaultPoolSize.MaxConns)
            /\ t.poolIdleConns = OrDefault(re.PoolIdleConns, defaultPoolSize.IdleConns)
            /\ t.dialTimeout = OrDefault(re.DialTimeout, defaultTimeouts.Dial)
            /\ rv.res.kind = "dot" =>
                   rv.res.handshakeTimeout
                       = OrDefault(re.HandshakeTimeout, defaultTimeouts.Handshake)
            /\ re.KeepaliveEnable =>
                   /\ t.keepAlive.Idle = OrDefault(re.KeepaliveIdle, defaultKeepAlive.Idle)
                   /\ t.keepAlive.Interval
                          = OrDefault(re.KeepaliveInterval, defaultKeepAlive.Interval)
                   /\ t.keepAlive.Count = OrDefault(re.KeepaliveCount, defaultKeepAlive.Count)
            /\ rv.op = "export" =>
                   /\ rv.out.PoolMaxConns = t.poolMaxConns
                   /\ rv.out.PoolIdleConns = t.poolIdleConns
                   /\ rv.out.DialTimeout = t.dialTimeout

\* C28: building a resolver from a spec with protocol dot and an empty
\* server_name, or from a spec of any protocol whose address does not parse
\* as ip:port, returns an error and no resolver.
C28_InvalidSpecsRejected ==
    rv.op = "new" =>
        /\ rv.re.Protocol = "dot" /\ rv.re.ServerName = "" =>
               rv.err /\ rv.res.kind = "nil"
        /\ ~ParseAddrPort(rv.re.Address).ok => rv.err /\ rv.res.kind = "nil"

\* The zones and the names the routes of the followed SetRoute calls are
\* asked about.
PartialZones == {Com, Net, OneCom}

PartialNames == {Com, Net, FooBarCom, AnythingNet, AnythingOrg}

\* C29: a SetRoute call that returns no error leaves the name of the route
\* as it was when the given name is empty, its resolver when no resolver is
\* given and its zones when no zone is given, and sets each field that is
\* given; given zones become the whole zone set of the route, so that a
\* zone it had before and that is not given again is no longer there and no
\* longer matches; no call, failed or not, changes another route or the
\* default resolver.
C29_SetRoutePartialUpdate ==
    sr.kind = "call" =>
        /\ sr.others
        /\ resolver = sr.def
        /\ ~sr.err =>
               LET old == IF sr.old = NilRoute THEN NewRoute ELSE sr.old
                   new == routes[sr.index]
                   zones == sr.re.zones
               IN  /\ new # NilRoute
                   /\ new.name = IF sr.re.name = "" THEN old.name ELSE sr.re.name
                   /\ new.resolver = IF sr.re.resolver = "nil" THEN old.resolver
                                     ELSE sr.re.resolver
                   /\ Len(zones) = 0 => new.trie = old.trie
                   /\ Len(zones) > 0 =>
                          /\ new.trie # NilTrie
                          /\ \A z \in PartialZones :
                                 HasZone(new.trie, z)
                                     <=> \E i \in 1..Len(zones) : zones[i] = z
                          /\ \A n \in PartialNames :
                                 Match(new.trie, n).ok =>
                                     \E i \in 1..Len(zones) : InZone(n, zones[i])

\* A call that gave only the zone net to a named route with a resolver and
\* the zone com, next to another route, has returned.
C29_Witness ==
    /\ sr.kind = "call" /\ ~sr.err
    /\ sr.re = [name |-> "", resolver |-> "nil", zones |-> <<Net>>]
    /\ sr.old # NilRoute
    /\ sr.old.name = "r" /\ sr.old.resolver = "R1"
    /\ sr.old.trie # NilTrie
    /\ HasZone(sr.old.trie, Com)
    /\ ~Match(routes[sr.index].trie, FooBarCom).ok
    /\ Match(routes[sr.index].trie, AnythingNet).ok
    /\ \E i \in DOMAIN routes \ {sr.index} : routes[i] # NilRoute
    /\ resolver = "D"

\* C30: a SetRoute call that returns an error, for an index outside
\* 1..MaxRoutes-1 or for a resolver spec that cannot be built, leaves the
\* router as it was: no route is created, and no name, resolver or zone set
\* of a route changes.
C30_ErrorLeavesRouterUnchanged ==
    sr.kind = "call" /\ sr.err =>
        /\ sr.index \in DOMAIN routes => routes[sr.index] = sr.old
        /\ sr.others
        /\ resolver = sr.def

\* C31: a Query call whose context deadline has passed is not left waiting:
\* it is not in a connPool.Get() that waits for an idle connection, and
\* where it writes to or reads from its connection that step can fail.
C31_DeadlineEndsWaiting ==
    \A q \in Queries :
        dl[q] =>
            /\ tq[q].pc = "get" => ~PoolGetBlocks(pool)
            /\ tq[q].pc \in {"write", "length", "content"} =>
                   ENABLED TqIO(q, tq[q].pc, FALSE)

\* The masks with exactly one zero bit.
OneZeroBitMasks == {127, 191, 223, 239, 247, 251, 253, 254}

\* Every internal node below node has two children and such a mask.
RECURSIVE WellFormed(_)
WellFormed(node) ==
    IF node.kind # "internal" THEN node.kind = "external"
    ELSE /\ node.otherBits \in OneZeroBitMasks
         /\ WellFormed(node.children[1])
         /\ WellFormed(node.children[2])

\* a comes before b in lexicographic order.
BytesLess(a, b) ==
    \E i \in 1..(Len(b)) :
        /\ \A j \in 1..(i - 1) : j <= Len(a) /\ a[j] = b[j]
        /\ i > Len(a) \/ a[i] < b[i]

\* C32: after any calls of Insert, Set and Delete that returned, every
\* internal node of the tree has two children and a mask with exactly one zero bit, the root
\* is nil exactly when nothing is stored and an external node exactly when
\* one key is, and the in-order walk gives every stored key once, in
\* ascending lexicographic order.
C32_StructuralInvariant ==
    ~co.panic =>
        LET w == Walk(tree)
        IN  /\ tree.kind = "nil" <=> stored = {}
            /\ tree.kind = "external" <=> Cardinality(stored) = 1
            /\ tree.kind # "nil" => WellFormed(tree)
            /\ Len(w) = Cardinality(stored)
            /\ {w[i] : i \in 1..Len(w)} = stored
            /\ \A i \in 1..(Len(w) - 1) : BytesLess(w[i].key, w[i + 1].key)

\* C33: reply runs at most once for every session, however the arrival of
\* the response, the firing of the timer and the return of query interleave:
\* no client is sent two replies, none is sent the ServFail fallback after
\* or before the response, and no reply finds the response channel of a DoH
\* session closed.
C33_AtMostOneReply ==
    /\ ~fpanic
    /\ \A i \in SessionIds : fs[i].pc # "idle" => Len(fs[i].replies) <= 1

\* C34: however receive (load the session, then send on its channel) and a
\* Query call returning on a done context (delete the session, then close
\* the channel) interleave, receive never sends on a closed channel.
C34_NoSendOnClosedChannel == recv.pc # "panic"

(***************************************************************************)
(* C35: connection accounting of the TCP-family Query.                     *)
(***************************************************************************)
\* C35: every connection a Query call obtained from the pool is put back
\* exactly once: the puts of the call follow its attempts one for one, a
\* connection not yet put back is the one the call holds, a returned call
\* has put back every connection, the put discards whenever an operation on
\* the connection failed, and it keeps the connection only after the
\* complete response was read on it.
C35_ConnectionAccounting ==
    \A q \in Queries :
        LET a == tq[q].attempts
            p == tq[q].puts
        IN  /\ Len(p) <= Len(a)
            /\ Len(a) <= Len(p) + 1
            /\ \A k \in 1..Len(p) :
                  /\ p[k].conn = a[k].conn
                  /\ a[k].failed # "none" => p[k].discard
                  /\ ~p[k].discard =>
                        /\ k = Len(a)
                        /\ a[k].failed = "none"
                        /\ tq[q].result = "resp"
            /\ Len(a) = Len(p) + 1 => tq[q].conn = a[Len(a)].conn
            /\ tq[q].pc = "done" => Len(p) = Len(a)

\* A call returned after two attempts: the connection of the first, whose
\* length read failed, was discarded and the one of the second, which read
\* the response, went back for reuse.
C35_Witness ==
    \E q \in Queries :
        /\ tq[q].pc = "done"
        /\ Len(tq[q].puts) = 2
        /\ tq[q].attempts[1].failed = "length"
        /\ tq[q].puts[1].discard
        /\ ~tq[q].puts[2].discard
        /\ tq[q].puts[2].conn # tq[q].puts[1].conn

(***************************************************************************)
(* C36: the operations of the router never fault.                          *)
(***************************************************************************)
\* The indexes of the routes that were configured.
ConfiguredRoutes(rts) == {i \in DOMAIN rts : rts[i] # NilRoute}

\* C36: after any calls of SetResolver and SetRoute (with only a name, only
\* a resolver, or failing), GetResolver returns normally for every name,
\* and Export returns normally and lists exactly the configured routes,
\* each with its own index and its zones.
C36_RouterNeverFaults ==
    /\ gr # None => ~gr.res.panic
    /\ ex # None =>
          /\ ~ex.res.panic
          /\ LET listed == {ex.res.routes[k] : k \in 1..Len(ex.res.routes)}
             IN  /\ {e.index : e \in listed} = ConfiguredRoutes(ex.routes)
                 /\ Len(ex.res.routes) = Cardinality(ConfiguredRoutes(ex.routes))
                 /\ \A e \in listed :
                       e.index \in ConfiguredRoutes(ex.routes) =>
                           e.zones = RouteZones(ex.routes[e.index])

(***************************************************************************)
(* C37: the router never loses the default resolver.                       *)
(***************************************************************************)
\* C37: a GetResolver call that returns normally returns no resolver only
\* when no default resolver is installed and no route whose trie matches
\* the name has a resolver; with a default installed, a matching route without
\* a resolver does not leave the name without a resolver.
\* The indexes of the routes whose trie matches the name.
TrieMatchingRoutes(name) ==
    {i \in 0..(MaxRoutes - 1) :
        /\ routes[i] # NilRoute
        /\ routes[i].trie # NilTrie
        /\ Match(routes[i].trie, name).ok}

C37_DefaultNeverLost ==
    (gr # None /\ ~gr.res.panic /\ gr.res.resolver = "nil") =>
        /\ resolver = "nil"
        /\ \A i \in TrieMatchingRoutes(gr.name) : routes[i].resolver = "nil"

(***************************************************************************)
(* C38: value integrity of the TTL cache.                                  *)
(***************************************************************************)
\* C38: the value Pop(k) returns and the value the sweeper passes to the
\* eviction callback for k are the value last stored under k, whatever a
\* Set or Add of another cache that shares itemPool does in between.
C38_ValueIntegrity ==
    /\ (cop.op = "pop" /\ cop.exists) =>
          /\ cop.had # NoItem
          /\ cop.value = cop.had.value
    /\ \A e \in cleaning : e.value = e.entry

(***************************************************************************)
(* C39: sessions with equal keys.                                          *)
(***************************************************************************)
\* Session i fails (query returned an error) or times out (its timer
\* callback runs) in the step.
FailsOrTimesOut(i) ==
    /\ fs[i].pc # "idle"
    /\ \/ fs[i].pc = "failed" /\ fs'[i].pc = "done"
       \/ fs[i].timer = "firing" /\ fs'[i].timer = "fired"

\* C39: with two client queries of the same session key in flight, the
\* failure or the timeout of one never removes the session entry of the
\* other.
C39_SessionIsolation ==
    [][\A i \in SessionIds, k \in SessionKeys :
          (FailsOrTimesOut(i) /\ fsess[k] # NoItem /\ fsess'[k] = NoItem)
              => fsess[k].value = i]_vars

(***************************************************************************)
(* C40: progress of a get() on a saturated pool.                           *)
(***************************************************************************)
\* C40: a get() blocked on a saturated pool returns once the connections
\* that were checked out have been put back, for reuse or discarded: a call
\* that waits while no connection is checked out any more does not wait
\* forever.
C40_BlockedGetReturns ==
    \A q \in Queries :
        (tq[q].pc = "wait" /\ \A c \in ConnIds : conns[c] # "out")
            ~> (tq[q].pc # "wait")

\* The tree holds exactly the stored entries.
WalkIsStored == {Walk(tree)[i] : i \in 1..Len(Walk(tree))} = stored

====
